---------------------------- MODULE Spec2Model ----------------------------
(***************************************************************************)
(* WavelengthWatch backend: the journal table and the analytics engine     *)
(* (src/backend/routers/analytics.py) that derives streaks, frequency,     *)
(* dosage ratios and distributions from it.                                *)
(*                                                                         *)
(* Time is a count of clock ticks since an epoch, TicksPerDay ticks to a   *)
(* calendar day, all in UTC.  A float is kept as an exact fraction         *)
(* <<numerator, denominator>> in lowest terms.                             *)
(***************************************************************************)
EXTENDS Integers, Sequences, FiniteSets

VARIABLES
    journal,    \* the Journal table: a set of rows
    response,   \* the last HTTP response, with the request it answers
    call,       \* one direct call of a helper: arguments and results
    layer,      \* the Layer table
    phase,      \* the Phase table
    curriculum, \* the Curriculum table
    strategy,   \* the Strategy table
    cache,      \* analytics_cache._cache: cache key -> CacheEntry
    clock,      \* time.time(), in seconds
    _request_times, \* app._request_times: client IP -> deque of datetimes
    worker,     \* the threads running rate_limit: position, ip and now
    columns     \* the column names of the journal table on disk

\* the reference tables
reference == <<layer, phase, curriculum, strategy>>

\* the analytics cache and the clock its expiry reads
caching == <<cache, clock>>

\* the rate limiter and the threads inside it
limiter == <<_request_times, worker>>

vars == <<journal, response, call, reference, caching, limiter, columns>>

---------------------------------------------------------------------------
(* Bounds of the model *)

TicksPerDay == 2
MaxDay == 3
MaxCallEntries == 4

Times == 0 .. ((MaxDay + 1) * TicksPerDay - 1)

---------------------------------------------------------------------------
(* Constants of the analytics router *)

\* start_date defaults to this many days before end_date
DefaultWindowDays == 30

\* the trailing window of the dominant layer and phase, in days
DominantWindowDays == 7

---------------------------------------------------------------------------
(* datetime arithmetic *)

\* datetime.date(): the calendar day a timestamp falls on
DateOf(t) == t \div TicksPerDay

\* timedelta(days=n)
Days(n) == n * TicksPerDay

\* timedelta.days of the difference (end - start): whole days, floored
TimedeltaDays(delta) == delta \div TicksPerDay

Max(a, b) == IF a >= b THEN a ELSE b

SetMax(S) == CHOOSE x \in S : \A y \in S : y <= x
SetMin(S) == CHOOSE x \in S : \A y \in S : x <= y

\* sorted(S, reverse=True)
RECURSIVE SortedDesc(_)
SortedDesc(S) ==
    IF S = {} THEN <<>>
    ELSE LET m == SetMax(S) IN <<m>> \o SortedDesc(S \ {m})

\* sorted(S)
RECURSIVE SortedAsc(_)
SortedAsc(S) ==
    IF S = {} THEN <<>>
    ELSE LET m == SetMin(S) IN <<m>> \o SortedAsc(S \ {m})

\* {entry.date() for entry in entries}
EntryDates(entries) == {DateOf(entries[i]) : i \in DOMAIN entries}

---------------------------------------------------------------------------
(* _calculate_streak *)

\* the loop with the expected-date cursor never moved back
RECURSIVE StreakLoop_NoDecrement(_, _, _, _)
StreakLoop_NoDecrement(dates, i, streak, current_date) ==
    IF i > Len(dates) THEN streak
    ELSE IF dates[i] = current_date
         THEN StreakLoop_NoDecrement(dates, i + 1, streak + 1, current_date)
         ELSE IF dates[i] < current_date
              THEN streak
              ELSE StreakLoop_NoDecrement(dates, i + 1, streak, current_date)

\* the for loop of _calculate_streak, from index i on
RECURSIVE StreakLoop(_, _, _, _)
StreakLoop(dates, i, streak, current_date) ==
    IF i > Len(dates) THEN streak
    ELSE IF dates[i] = current_date
         THEN StreakLoop(dates, i + 1, streak + 1, current_date - 1)
         ELSE IF dates[i] < current_date
              THEN streak
              ELSE StreakLoop(dates, i + 1, streak, current_date)

\* the staleness test off by one: yesterday's entry already counts as stale
StreakIsStale_OffByOne(most_recent, end_date_only) == most_recent < end_date_only

\* the staleness test: the most recent entry is not today or yesterday
StreakIsStale(most_recent, end_date_only) == most_recent < end_date_only - 1

_calculate_streak(entries, end_date) ==
    IF entries = <<>> THEN 0
    ELSE LET dates == SortedDesc(EntryDates(entries))
             end_date_only == DateOf(end_date)
         IN  IF StreakIsStale(dates[1], end_date_only) THEN 0
             ELSE StreakLoop(dates, 1, 0, dates[1])

---------------------------------------------------------------------------
(* _calculate_longest_streak *)

\* the loop with the run reset to 0, not 1, at a gap
RECURSIVE LongestLoop_ResetToZero(_, _, _, _)
LongestLoop_ResetToZero(dates, i, longest, current) ==
    IF i > Len(dates) THEN longest
    ELSE IF dates[i] - dates[i - 1] = 1
         THEN LongestLoop_ResetToZero(dates, i + 1, Max(longest, current + 1), current + 1)
         ELSE LongestLoop_ResetToZero(dates, i + 1, longest, 0)

\* the loop with the maximum never raised when a run grows
RECURSIVE LongestLoop_NoMax(_, _, _, _)
LongestLoop_NoMax(dates, i, longest, current) ==
    IF i > Len(dates) THEN longest
    ELSE IF dates[i] - dates[i - 1] = 1
         THEN LongestLoop_NoMax(dates, i + 1, longest, current + 1)
         ELSE LongestLoop_NoMax(dates, i + 1, longest, 1)

\* the for loop of _calculate_longest_streak, from index i on
RECURSIVE LongestLoop(_, _, _, _)
LongestLoop(dates, i, longest, current) ==
    IF i > Len(dates) THEN longest
    ELSE IF dates[i] - dates[i - 1] = 1
         THEN LongestLoop(dates, i + 1, Max(longest, current + 1), current + 1)
         ELSE LongestLoop(dates, i + 1, longest, 1)

_calculate_longest_streak(entries) ==
    IF entries = <<>> THEN 0
    ELSE LET dates == SortedAsc(EntryDates(entries))
         IN  IF dates = <<>> THEN 0
             ELSE LongestLoop(dates, 2, 1, 1)

---------------------------------------------------------------------------
(* Optional values and floats *)

\* an optional value: None, or Some(x)
None == <<>>
Some(x) == <<x>>

Abs(n) == IF n < 0 THEN -n ELSE n

RECURSIVE GCD(_, _)
GCD(a, b) == IF b = 0 THEN a ELSE GCD(b, a % b)

\* the float n / d (d > 0), as a fraction in lowest terms
Frac(n, d) == LET g == GCD(Abs(n), d) IN <<n \div g, d \div g>>

\* the float 0.0
Zero == Frac(0, 1)

\* a - b on floats
FracSub(a, b) == Frac(a[1] * b[2] - b[1] * a[2], a[2] * b[2])

---------------------------------------------------------------------------
(* Reference data: rows of the Curriculum table, from the seed fixtures *)

CurriculumTable ==
    { [id |-> 1,  layer_id |-> 1, phase_id |-> 1, dosage |-> "Medicinal"],
      [id |-> 2,  layer_id |-> 2, phase_id |-> 1, dosage |-> "Medicinal"],
      [id |-> 10, layer_id |-> 1, phase_id |-> 1, dosage |-> "Toxic"],
      [id |-> 19, layer_id |-> 1, phase_id |-> 2, dosage |-> "Medicinal"] }

CurriculumIds == {c.id : c \in curriculum}

\* session.get(Curriculum, id)
CurriculumRow(id) == CHOOSE c \in curriculum : c.id = id

\* rows of the Strategy table, from the seed fixtures
StrategyTable ==
    { [id |-> 1, strategy |-> "Readjusting posture", layer_id |-> 1,
       color_layer_id |-> 1, phase_id |-> 5],
      [id |-> 4, strategy |-> "Listening to Music", layer_id |-> 2,
       color_layer_id |-> 2, phase_id |-> 5] }

StrategyIds == {st.id : st \in strategy}

\* rows of the Layer table, from the seed fixtures
LayerTable ==
    { [id |-> 1, color |-> "Beige"], [id |-> 2, color |-> "Purple"] }

\* rows of the Phase table, from the seed fixtures
PhaseTable ==
    { [id |-> 1, name |-> "Rising"], [id |-> 2, name |-> "Peaking"],
      [id |-> 5, name |-> "Bottoming Out"] }

\* the reference tables as seeding leaves them
Seeded ==
    /\ layer = LayerTable
    /\ phase = PhaseTable
    /\ curriculum = CurriculumTable
    /\ strategy = StrategyTable

---------------------------------------------------------------------------
(* The analytics cache (src/backend/cache.py).  A cache key is the string  *)
(* make_cache_key builds, kept as its sequence of tokens: the fixed words, *)
(* the colons and the decimal digits of the user id.                       *)

\* TTL of the global cache instance, in seconds
DEFAULT_TTL_SECONDS == 300

\* the characters of the decimal digits 0 to 9
DigitChars == <<"0", "1", "2", "3", "4", "5", "6", "7", "8", "9">>

\* str(n) for n >= 0: its decimal digits
RECURSIVE Digits(_)
Digits(n) ==
    IF n < 10 THEN <<DigitChars[n + 1]>>
    ELSE Digits(n \div 10) \o <<DigitChars[(n % 10) + 1]>>

\* str.startswith
StartsWith(str, prefix) ==
    /\ Len(prefix) <= Len(str)
    /\ SubSeq(str, 1, Len(prefix)) = prefix

\* the names of extra keyword arguments, in string order
KwargNames == <<"limit", "offset">>

\* no extra keyword arguments
NoKwargs == <<>>

\* keyword arguments are the pairs <<name, value>> of kwargs.items(), in the
\* order the caller wrote them; the place of a name in string order:
NameRank(k) == CHOOSE i \in 1 .. Len(KwargNames) : KwargNames[i] = k

\* the items in the order the caller gave them
AsGiven(items) == items

\* sorted(kwargs.items()): names are distinct, so the name decides
RECURSIVE sorted(_)
sorted(items) ==
    IF items = <<>> THEN <<>>
    ELSE LET least == CHOOSE i \in 1 .. Len(items) :
                          \A j \in 1 .. Len(items) :
                              NameRank(items[i][1]) <= NameRank(items[j][1])
         IN  <<items[least]>> \o
             sorted(SubSeq(items, 1, least - 1) \o
                    SubSeq(items, least + 1, Len(items)))

\* ":".join(f"{k}={v}" for k, v in items)
RECURSIVE JoinKwargs(_)
JoinKwargs(items) ==
    IF items = <<>> THEN <<>>
    ELSE <<items[1][1], "=", items[1][2]>> \o
         (IF Len(items) = 1 THEN <<>> ELSE <<":">> \o JoinKwargs(Tail(items)))

make_cache_key(user_id, endpoint, start_date, end_date, kwargs) ==
    LET extra == JoinKwargs(sorted(kwargs))
        base == <<"user", ":">> \o Digits(user_id) \o
                <<":", endpoint, ":", start_date, ":", end_date>>
    IN  IF extra # <<>> THEN base \o <<":">> \o extra ELSE base

\* a dict without the keys of gone
Without(dict, gone) == [k \in DOMAIN dict \ gone |-> dict[k]]

\* an entry taken as expired from its expiry time on
ExpiredAtExpiry(entry) == clock >= entry.expires_at

\* time.time() > entry.expires_at
Expired(entry) == clock > entry.expires_at

\* AnalyticsCache.get: the value returned, None on a miss
get_returns(key) ==
    IF key \notin DOMAIN cache THEN None
    ELSE IF Expired(cache[key]) THEN None
    ELSE Some(cache[key].value)

\* AnalyticsCache.get: the cache it leaves, an expired entry deleted
get(key) ==
    IF key \in DOMAIN cache /\ Expired(cache[key])
    THEN Without(cache, {key})
    ELSE cache

\* a set that also sweeps out every expired entry
SetSweepingExpired(key, value) ==
    [k \in {x \in DOMAIN cache : ~Expired(cache[x])} \cup {key} |->
        IF k = key
        THEN [value |-> value, expires_at |-> clock + DEFAULT_TTL_SECONDS]
        ELSE cache[k]]

\* AnalyticsCache.set: the cache it leaves
set(key, value) ==
    [k \in DOMAIN cache \cup {key} |->
        IF k = key
        THEN [value |-> value, expires_at |-> clock + DEFAULT_TTL_SECONDS]
        ELSE cache[k]]

\* a prefix that stops at the last digit of the id
PrefixToId(user_id) == <<"user", ":">> \o Digits(user_id)

\* f"user:{user_id}:"
UserPrefix(user_id) == <<"user", ":">> \o Digits(user_id) \o <<":">>

\* AnalyticsCache.invalidate_user: the cache it leaves
invalidate_user(user_id) ==
    LET prefix == UserPrefix(user_id)
        keys_to_delete == {k \in DOMAIN cache : StartsWith(k, prefix)}
    IN  Without(cache, keys_to_delete)

\* AnalyticsCache.clear: the cache it leaves
clear == Without(cache, DOMAIN cache)

\* AnalyticsCache.stats
stats == [entry_count |-> Cardinality(DOMAIN cache)]

\* a cache without entries at time 0
ColdCache ==
    /\ cache = <<>>
    /\ clock = 0

\* client hosts
IPs == {"10.0.0.1", "10.0.0.2"}

\* threads of the pool that runs the rate_limit dependency
Workers == {1, 2}

IdleWorker == [pc |-> "idle"]

\* no request seen yet: every deque empty, as the defaultdict gives it
NoRequests ==
    /\ _request_times = [ip \in IPs |-> <<>>]
    /\ worker = [w \in Workers |-> IdleWorker]

---------------------------------------------------------------------------
(* The journal table on disk (src/backend/database.py) *)

\* the columns of the Journal model
ModelColumns ==
    {"id", "created_at", "user_id", "curriculum_id", "secondary_curriculum_id",
     "strategy_id", "initiated_by"}

\* no journal table in the database file
NoTable == {}

\* the table as SQLModel.metadata.create_all makes it from the model
CurrentSchema == columns = ModelColumns

\* required_columns of _refresh_outdated_tables
RequiredColumns == {"source"}

\* create_db_and_tables: create_all adds the table if there is none, then
\* _refresh_outdated_tables drops and recreates it unless the table on
\* disk has every required column
create_db_and_tables ==
    LET column_names == IF columns = NoTable THEN ModelColumns ELSE columns
    IN  IF RequiredColumns \subseteq column_names
        THEN /\ columns' = column_names
             /\ journal' = journal
        ELSE /\ columns' = ModelColumns
             /\ journal' = {}

---------------------------------------------------------------------------
(* The Journal table *)

\* the primary key SQLite gives a new row
NextJournalId == IF journal = {} THEN 1 ELSE SetMax({r.id : r \in journal}) + 1

\* a validation that looks at the curriculum references only
ValidatesCurriculaOnly(curriculum_id, secondary_curriculum_id, strategy_id) ==
    /\ curriculum_id \in CurriculumIds
    /\ secondary_curriculum_id # None => secondary_curriculum_id[1] \in CurriculumIds

\* whether _validate_references accepts the references
_validate_references(curriculum_id, secondary_curriculum_id, strategy_id) ==
    /\ curriculum_id \in CurriculumIds
    /\ secondary_curriculum_id # None => secondary_curriculum_id[1] \in CurriculumIds
    /\ strategy_id # None => strategy_id[1] \in StrategyIds

\* POST /journal
create_journal(payload) ==
    /\ IF _validate_references(payload.curriculum_id,
                               payload.secondary_curriculum_id,
                               payload.strategy_id)
       THEN /\ journal' = journal \cup
                   {[id |-> NextJournalId,
                     created_at |-> payload.created_at,
                     user_id |-> payload.user_id,
                     curriculum_id |-> payload.curriculum_id,
                     secondary_curriculum_id |-> payload.secondary_curriculum_id,
                     strategy_id |-> payload.strategy_id]}
            /\ cache' = invalidate_user(payload.user_id)
            /\ response' = [endpoint |-> "create_journal", status |-> 201,
                            id |-> NextJournalId, payload |-> payload]
       ELSE /\ journal' = journal
            /\ cache' = cache
            /\ response' = [endpoint |-> "create_journal", status |-> 400,
                            payload |-> payload]
    /\ UNCHANGED <<call, reference, clock, limiter, columns>>

\* the answer to a request that names a row by its id; data is the body
Answer(endpoint, id, data, status) ==
    [endpoint |-> endpoint, status |-> status, id |-> id, data |-> data]

\* data.get(key, current), on a body kept as a function from the names of
\* the fields it sets to None (null) or Some(value)
\* an answer that carries _serialize_journal(row)
AnswerRow(endpoint, id, data, status, row) ==
    [endpoint |-> endpoint, status |-> status, id |-> id, data |-> data, row |-> row]

BodyGet(data, key, current) == IF key \in DOMAIN data THEN data[key] ELSE current

\* the row after setattr(journal, key, value) for every item of the body
\* model_dump(exclude_none=True): a null in the body changes nothing
UpdatedSkippingNulls(row, data) ==
    LET kept(key, current) ==
            IF key \in DOMAIN data /\ data[key] # None THEN data[key] ELSE current
    IN  [id |-> row.id,
         created_at |-> kept("created_at", Some(row.created_at))[1],
         user_id |-> kept("user_id", Some(row.user_id))[1],
         curriculum_id |-> kept("curriculum_id", Some(row.curriculum_id))[1],
         secondary_curriculum_id |->
             kept("secondary_curriculum_id", row.secondary_curriculum_id),
         strategy_id |-> kept("strategy_id", row.strategy_id)]

Updated(row, data) ==
    [id |-> row.id,
     created_at |-> BodyGet(data, "created_at", Some(row.created_at))[1],
     user_id |-> BodyGet(data, "user_id", Some(row.user_id))[1],
     curriculum_id |-> BodyGet(data, "curriculum_id", Some(row.curriculum_id))[1],
     secondary_curriculum_id |->
         BodyGet(data, "secondary_curriculum_id", row.secondary_curriculum_id),
     strategy_id |-> BodyGet(data, "strategy_id", row.strategy_id)]

\* PUT /journal/{journal_id}
update_journal(journal_id, data) ==
    /\ IF journal_id \notin {r.id : r \in journal}
       THEN /\ journal' = journal
            /\ response' = Answer("update_journal", journal_id, data, 404)
       ELSE LET row == CHOOSE r \in journal : r.id = journal_id
                curriculum_id == BodyGet(data, "curriculum_id", Some(row.curriculum_id))
                secondary_curriculum_id ==
                    BodyGet(data, "secondary_curriculum_id", row.secondary_curriculum_id)
                strategy_id == BodyGet(data, "strategy_id", row.strategy_id)
            IN  IF DOMAIN data = {}
                THEN /\ journal' = journal
                     /\ response' = AnswerRow("update_journal", journal_id, data, 200, row)
                ELSE IF \/ curriculum_id = None
                        \/ ~_validate_references(curriculum_id[1],
                                                 secondary_curriculum_id, strategy_id)
                THEN /\ journal' = journal
                     /\ response' = Answer("update_journal", journal_id, data, 400)
                ELSE IF \E key \in {"created_at", "user_id"} :
                            key \in DOMAIN data /\ data[key] = None
                \* NOT NULL constraint: the commit raises IntegrityError
                THEN /\ journal' = journal
                     /\ response' = Answer("update_journal", journal_id, data, 500)
                ELSE /\ journal' = (journal \ {row}) \cup {Updated(row, data)}
                     /\ response' = AnswerRow("update_journal", journal_id, data, 200,
                                              Updated(row, data))
    /\ UNCHANGED <<call, reference, caching, limiter, columns>>

\* DELETE /journal/{journal_id}
\* GET /journal/{journal_id}
get_journal(journal_id) ==
    /\ response' = (IF journal_id \notin {r.id : r \in journal}
                    THEN Answer("get_journal", journal_id, <<>>, 404)
                    ELSE AnswerRow("get_journal", journal_id, <<>>, 200,
                                   CHOOSE r \in journal : r.id = journal_id))
    /\ UNCHANGED <<journal, call, reference, caching, limiter, columns>>

\* the delete takes every row of the entry's user with it
DeletesUsersRows(journal_id) ==
    /\ IF journal_id \notin {r.id : r \in journal}
       THEN /\ journal' = journal
            /\ response' = Answer("delete_journal", journal_id, <<>>, 404)
       ELSE /\ journal' = {r \in journal :
                              r.user_id # (CHOOSE x \in journal : x.id = journal_id).user_id}
            /\ response' = Answer("delete_journal", journal_id, <<>>, 204)
    /\ UNCHANGED <<call, reference, caching, limiter, columns>>

delete_journal(journal_id) ==
    /\ IF journal_id \notin {r.id : r \in journal}
       THEN /\ journal' = journal
            /\ response' = Answer("delete_journal", journal_id, <<>>, 404)
       ELSE /\ journal' = {r \in journal : r.id # journal_id}
            /\ response' = Answer("delete_journal", journal_id, <<>>, 204)
    /\ UNCHANGED <<call, reference, caching, limiter, columns>>

---------------------------------------------------------------------------
(* The curriculum and strategy routers *)

\* the primary key SQLite gives a new row of a table
NextId(table) == IF table = {} THEN 1 ELSE SetMax({r.id : r \in table}) + 1

\* _validate_references of the curriculum and strategy routers
validate_layer_and_phase(layer_id, phase_id) ==
    /\ layer_id \in {l.id : l \in layer}
    /\ phase_id \in {ph.id : ph \in phase}

\* POST /curriculum
create_curriculum(payload) ==
    /\ IF validate_layer_and_phase(payload.layer_id, payload.phase_id)
       THEN /\ curriculum' = curriculum \cup
                   {[id |-> NextId(curriculum), layer_id |-> payload.layer_id,
                     phase_id |-> payload.phase_id, dosage |-> payload.dosage]}
            /\ response' = Answer("create_curriculum", NextId(curriculum), payload, 201)
       ELSE /\ curriculum' = curriculum
            /\ response' = Answer("create_curriculum", 0, payload, 400)
    /\ UNCHANGED <<journal, call, layer, phase, strategy, caching, limiter, columns>>

\* PUT /curriculum/{curriculum_id}; the body sets layer_id, phase_id or
\* dosage, none of them to null
update_curriculum(curriculum_id, data) ==
    /\ IF curriculum_id \notin CurriculumIds
       THEN /\ curriculum' = curriculum
            /\ response' = Answer("update_curriculum", curriculum_id, data, 404)
       ELSE LET row == CurriculumRow(curriculum_id)
                layer_id == BodyGet(data, "layer_id", row.layer_id)
                phase_id == BodyGet(data, "phase_id", row.phase_id)
            IN  IF /\ DOMAIN data \cap {"layer_id", "phase_id"} # {}
                   /\ ~validate_layer_and_phase(layer_id, phase_id)
                THEN /\ curriculum' = curriculum
                     /\ response' = Answer("update_curriculum", curriculum_id, data, 400)
                ELSE /\ curriculum' = (curriculum \ {row}) \cup
                            {[id |-> row.id, layer_id |-> layer_id, phase_id |-> phase_id,
                              dosage |-> BodyGet(data, "dosage", row.dosage)]}
                     /\ response' = Answer("update_curriculum", curriculum_id, data, 200)
    /\ UNCHANGED <<journal, call, layer, phase, strategy, caching, limiter, columns>>

\* the delete leaves the journal rows that name the curriculum untouched
KeepsReferences(row, column, id) == row

\* session.delete of a parent row: the unit of work first sets the foreign
\* key of every child row that names it to NULL
Nullified(row, column, id) ==
    IF row[column] = Some(id) THEN [row EXCEPT ![column] = None] ELSE row

\* Journal.curriculum_id is NOT NULL: setting it to NULL fails the flush
\* with IntegrityError, and the transaction is rolled back
DeleteBlocked(curriculum_id) == \E r \in journal : r.curriculum_id = curriculum_id

\* DELETE /curriculum/{curriculum_id}
delete_curriculum(curriculum_id) ==
    /\ IF curriculum_id \notin CurriculumIds
       THEN /\ UNCHANGED <<journal, curriculum>>
            /\ response' = Answer("delete_curriculum", curriculum_id, <<>>, 404)
       ELSE IF DeleteBlocked(curriculum_id)
       THEN /\ UNCHANGED <<journal, curriculum>>
            /\ response' = Answer("delete_curriculum", curriculum_id, <<>>, 500)
       ELSE /\ journal' = {Nullified(r, "secondary_curriculum_id", curriculum_id) :
                               r \in journal}
            /\ curriculum' = {c \in curriculum : c.id # curriculum_id}
            /\ response' = Answer("delete_curriculum", curriculum_id, <<>>, 204)
    /\ UNCHANGED <<call, layer, phase, strategy, caching, limiter, columns>>

\* POST /strategy: color_layer_id and phase_id are validated by the router,
\* layer_id by the foreign key at commit
create_strategy(payload) ==
    /\ IF ~validate_layer_and_phase(payload.color_layer_id, payload.phase_id)
       THEN /\ strategy' = strategy
            /\ response' = Answer("create_strategy", 0, payload, 400)
       ELSE IF payload.layer_id \notin {l.id : l \in layer}
       THEN /\ strategy' = strategy
            /\ response' = Answer("create_strategy", 0, payload, 500)
       ELSE /\ strategy' = strategy \cup
                   {[id |-> NextId(strategy), strategy |-> payload.strategy,
                     layer_id |-> payload.layer_id,
                     color_layer_id |-> payload.color_layer_id,
                     phase_id |-> payload.phase_id]}
            /\ response' = Answer("create_strategy", NextId(strategy), payload, 201)
    /\ UNCHANGED <<journal, call, layer, phase, curriculum, caching, limiter, columns>>

\* PUT /strategy/{strategy_id}; the body sets strategy, color_layer_id or
\* phase_id, none of them to null
update_strategy(strategy_id, data) ==
    /\ IF strategy_id \notin StrategyIds
       THEN /\ strategy' = strategy
            /\ response' = Answer("update_strategy", strategy_id, data, 404)
       ELSE LET row == CHOOSE st \in strategy : st.id = strategy_id
                color_layer_id == BodyGet(data, "color_layer_id", row.color_layer_id)
                phase_id == BodyGet(data, "phase_id", row.phase_id)
            IN  IF /\ DOMAIN data \cap {"color_layer_id", "phase_id"} # {}
                   /\ ~validate_layer_and_phase(color_layer_id, phase_id)
                THEN /\ strategy' = strategy
                     /\ response' = Answer("update_strategy", strategy_id, data, 400)
                ELSE /\ strategy' = (strategy \ {row}) \cup
                            {[id |-> row.id,
                              strategy |-> BodyGet(data, "strategy", row.strategy),
                              layer_id |-> row.layer_id,
                              color_layer_id |-> color_layer_id,
                              phase_id |-> phase_id]}
                     /\ response' = Answer("update_strategy", strategy_id, data, 200)
    /\ UNCHANGED <<journal, call, layer, phase, curriculum, caching, limiter, columns>>

\* DELETE /strategy/{strategy_id}
delete_strategy(strategy_id) ==
    /\ IF strategy_id \notin StrategyIds
       THEN /\ UNCHANGED <<journal, strategy>>
            /\ response' = Answer("delete_strategy", strategy_id, <<>>, 404)
       ELSE /\ journal' = {Nullified(r, "strategy_id", strategy_id) : r \in journal}
            /\ strategy' = {st \in strategy : st.id # strategy_id}
            /\ response' = Answer("delete_strategy", strategy_id, <<>>, 204)
    /\ UNCHANGED <<call, layer, phase, curriculum, caching, limiter, columns>>

---------------------------------------------------------------------------
(* Queries of the analytics router *)

\* WHERE user_id = ? AND created_at >= start_date AND created_at <= end_date
\* the WHERE clause without the lower bound
WindowRowsNoLowerBound(user_id, start_date, end_date) ==
    {r \in journal : r.user_id = user_id /\ r.created_at <= end_date}

\* the WHERE clause without the user
WindowRowsAnyUser(user_id, start_date, end_date) ==
    {r \in journal : r.created_at >= start_date /\ r.created_at <= end_date}

\* the WHERE clause without the upper bound
WindowRowsNoUpperBound(user_id, start_date, end_date) ==
    {r \in journal : r.user_id = user_id /\ r.created_at >= start_date}

\* the WHERE clause with a window that starts after start_date
WindowRowsAfterStart(user_id, start_date, end_date) ==
    {r \in journal : /\ r.user_id = user_id
                     /\ r.created_at > start_date
                     /\ r.created_at <= end_date}

WindowRows(user_id, start_date, end_date) ==
    {r \in journal : /\ r.user_id = user_id
                     /\ r.created_at >= start_date
                     /\ r.created_at <= end_date}

\* [entry.created_at for entry in entries], entries ordered by created_at desc
RECURSIVE TimestampsDesc(_)
TimestampsDesc(rows) ==
    IF rows = {} THEN <<>>
    ELSE LET r == CHOOSE x \in rows : \A y \in rows : y.created_at <= x.created_at
         IN  <<r.created_at>> \o TimestampsDesc(rows \ {r})

\* rows joined to Curriculum on the secondary curriculum
JoinedOnSecondary(rows) ==
    {[row |-> r, curriculum |-> CurriculumRow(r.secondary_curriculum_id[1])] :
        r \in {x \in rows : /\ x.secondary_curriculum_id # None
                            /\ x.secondary_curriculum_id[1] \in CurriculumIds}}

\* the join taken on the secondary curriculum instead
JoinedOnPrimary_BySecondary(rows) == JoinedOnSecondary(rows)

\* rows joined to Curriculum on the primary curriculum
JoinedOnPrimary(rows) ==
    {[row |-> r, curriculum |-> CurriculumRow(r.curriculum_id)] :
        r \in {x \in rows : x.curriculum_id \in CurriculumIds}}

_calculate_medicinal_ratio(user_id, start_date, end_date) ==
    LET joined == JoinedOnPrimary(WindowRows(user_id, start_date, end_date))
        total == Cardinality(joined)
        medicinal == Cardinality({j \in joined : j.curriculum.dosage = "Medicinal"})
    IN  IF joined = {} THEN Zero
        ELSE IF total > 0 THEN Frac(medicinal * 100, total) ELSE Zero

\* the start of the period the trend compares with
PrevStartSameAsStart(start_date, end_date) == start_date

PrevStart(start_date, end_date) == start_date - (end_date - start_date)

_calculate_medicinal_trend(user_id, start_date, end_date) ==
    LET prev_end_date == start_date
        prev_start_date == PrevStart(start_date, end_date)
        current_ratio == _calculate_medicinal_ratio(user_id, start_date, end_date)
        prev_ratio == _calculate_medicinal_ratio(user_id, prev_start_date, prev_end_date)
    IN  FracSub(current_ratio, prev_ratio)

\* GROUP BY key ORDER BY count DESC LIMIT 1: the keys the query may return
TopKeys(keys) ==
    LET ks == {k[1] : k \in keys}
        cnt(k) == Cardinality({x \in keys : x[1] = k})
    IN  {k \in ks : \A other \in ks : cnt(other) <= cnt(k)}

\* the dominant layer and phase taken over everything up to end_date
DominantOverAllHistory(user_id, end_date) ==
    LET joined == JoinedOnPrimary(WindowRowsNoLowerBound(user_id, end_date, end_date))
        layers == TopKeys({<<j.curriculum.layer_id, j.row.id>> : j \in joined})
        phases == TopKeys({<<j.curriculum.phase_id, j.row.id>> : j \in joined})
    IN  IF joined = {} THEN {<<None, None>>}
        ELSE {<<Some(l), Some(ph)>> : l \in layers, ph \in phases}

\* the (layer, phase) pairs _get_dominant_layer_and_phase may return
_get_dominant_layer_and_phase(user_id, end_date) ==
    LET seven_days_ago == end_date - Days(DominantWindowDays)
        joined == JoinedOnPrimary(WindowRows(user_id, seven_days_ago, end_date))
        layers == TopKeys({<<j.curriculum.layer_id, j.row.id>> : j \in joined})
        phases == TopKeys({<<j.curriculum.phase_id, j.row.id>> : j \in joined})
    IN  IF joined = {} THEN {<<None, None>>}
        ELSE {<<Some(l), Some(ph)>> : l \in layers, ph \in phases}

---------------------------------------------------------------------------
(* GET /analytics/overview *)

\* end_date defaults to now, start_date to 30 days before end_date
ResolveEnd(end_param, now) == IF end_param = None THEN now ELSE end_param[1]
ResolveStart(start_param, end_date) ==
    IF start_param = None THEN end_date - Days(DefaultWindowDays) ELSE start_param[1]

\* days_in_period counted in calendar dates
DaysInPeriod_CalendarDates(start_date, end_date) ==
    DateOf(end_date) - DateOf(start_date) + 1

\* days_in_period
DaysInPeriod(start_date, end_date) == TimedeltaDays(end_date - start_date) + 1

\* a response, with the request it answers: the user, whether start_date
\* was given, and the window the handler resolved
NotFound(endpoint, user_id, start_param, start_date, end_date) ==
    [endpoint |-> endpoint, user_id |-> user_id,
     start_given |-> start_param # None, start_date |-> start_date,
     end_date |-> end_date, status |-> 404,
     detail |-> "No journal entries found for user"]

Ok(endpoint, user_id, start_param, start_date, end_date, body) ==
    [endpoint |-> endpoint, user_id |-> user_id,
     start_given |-> start_param # None, start_date |-> start_date,
     end_date |-> end_date, status |-> 200, body |-> body]

get_analytics_overview(user_id, start_param, end_param, now) ==
    LET end_date == ResolveEnd(end_param, now)
        start_date == ResolveStart(start_param, end_date)
        entries == WindowRows(user_id, start_date, end_date)
    IN  /\ IF entries = {}
           THEN response' = NotFound("overview", user_id, start_param,
                                     start_date, end_date)
           ELSE LET total_entries == Cardinality(entries)
                    entry_timestamps == TimestampsDesc(entries)
                    days_in_period == DaysInPeriod(start_date, end_date)
                IN  \E dominant \in _get_dominant_layer_and_phase(user_id, end_date) :
                      response' = Ok("overview", user_id, start_param, start_date, end_date,
                        [total_entries |-> total_entries,
                         current_streak |-> _calculate_streak(entry_timestamps, end_date),
                         longest_streak |-> _calculate_longest_streak(entry_timestamps),
                         avg_frequency |->
                             IF days_in_period > 0
                             THEN Frac(total_entries, days_in_period) ELSE Zero,
                         last_check_in |-> entry_timestamps[1],
                         medicinal_ratio |->
                             _calculate_medicinal_ratio(user_id, start_date, end_date),
                         medicinal_trend |->
                             _calculate_medicinal_trend(user_id, start_date, end_date),
                         dominant_layer_id |-> dominant[1],
                         dominant_phase_id |-> dominant[2],
                         unique_emotions |->
                             Cardinality({r.curriculum_id : r \in entries}),
                         strategies_used |->
                             Cardinality({r.strategy_id :
                                 r \in {x \in entries : x.strategy_id # None}}),
                         secondary_emotions_pct |->
                             IF total_entries > 0
                             THEN Frac(Cardinality({r \in entries :
                                         r.secondary_curriculum_id # None}) * 100,
                                       total_entries)
                             ELSE Zero])
        /\ UNCHANGED <<journal, call, reference, caching, limiter, columns>>

---------------------------------------------------------------------------
(* GET /analytics/growth *)

get_growth_indicators(user_id, start_param, end_param, now) ==
    LET end_date == ResolveEnd(end_param, now)
        start_date == ResolveStart(start_param, end_date)
        entries == WindowRows(user_id, start_date, end_date)
        curricula == {CurriculumRow(r.curriculum_id) :
                         r \in {x \in entries : x.curriculum_id \in CurriculumIds}}
    IN  /\ response' = Ok("growth", user_id, start_param, start_date, end_date,
               [medicinal_trend |->
                    _calculate_medicinal_trend(user_id, start_date, end_date),
                layer_diversity |-> Cardinality({c.layer_id : c \in curricula}),
                phase_coverage |-> Cardinality({c.phase_id : c \in curricula})])
        /\ UNCHANGED <<journal, call, reference, caching, limiter, columns>>

---------------------------------------------------------------------------
(* GET /analytics/emotional-landscape *)

\* the orders in which a query without ORDER BY may return the rows S
Permutations(S) ==
    {f \in [1 .. Cardinality(S) -> S] :
        \A i, j \in 1 .. Cardinality(S) : i # j => f[i] # f[j]}

\* seq[:limit]
Take(seq, limit) == SubSeq(seq, 1, IF limit < Len(seq) THEN limit ELSE Len(seq))

\* GROUP BY key with count and percentage of total_entries
Distribution(keys, total_entries) ==
    {[key |-> k, count |-> Cardinality({x \in keys : x[1] = k}),
      percentage |-> IF total_entries > 0
                     THEN Frac(Cardinality({x \in keys : x[1] = k}) * 100, total_entries)
                     ELSE Zero] : k \in {x[1] : x \in keys}}

\* primary_stmt / secondary_stmt: (curriculum, count) per curriculum id
EmotionResults(joined) ==
    {[curriculum |-> c, count |-> Cardinality({j \in joined : j.curriculum = c})] :
        c \in {j.curriculum : j \in joined}}

\* accumulation that keeps the first count seen for a curriculum
RECURSIVE AccumulateFirstCountOnly(_, _)
AccumulateFirstCountOnly(emotion_counts, results) ==
    IF results = <<>> THEN emotion_counts
    ELSE LET res == Head(results)
             seen == {i \in DOMAIN emotion_counts :
                         emotion_counts[i].curriculum.id = res.curriculum.id}
         IN  AccumulateFirstCountOnly(
                 IF seen = {} THEN Append(emotion_counts, res) ELSE emotion_counts,
                 Tail(results))

\* _accumulate_emotion_counts over a result list, in its order
RECURSIVE _accumulate_emotion_counts(_, _)
_accumulate_emotion_counts(emotion_counts, results) ==
    IF results = <<>> THEN emotion_counts
    ELSE LET res == Head(results)
             seen == {i \in DOMAIN emotion_counts :
                         emotion_counts[i].curriculum.id = res.curriculum.id}
         IN  _accumulate_emotion_counts(
                 IF seen = {}
                 THEN Append(emotion_counts, res)
                 ELSE [i \in DOMAIN emotion_counts |->
                          IF i \in seen
                          THEN [emotion_counts[i] EXCEPT !.count = @ + res.count]
                          ELSE emotion_counts[i]],
                 Tail(results))

\* sorted(items, key=count, reverse=True): a stable sort
RECURSIVE SortedByCountDesc(_)
SortedByCountDesc(items) ==
    IF items = <<>> THEN <<>>
    ELSE LET top == CHOOSE i \in DOMAIN items :
                        /\ \A j \in DOMAIN items : items[j].count <= items[i].count
                        /\ \A j \in 1 .. (i - 1) : items[j].count < items[i].count
         IN  <<items[top]>> \o
             SortedByCountDesc([k \in 1 .. (Len(items) - 1) |->
                                   IF k < top THEN items[k] ELSE items[k + 1]])

TopEmotionItem(item) ==
    [curriculum_id |-> item.curriculum.id, layer_id |-> item.curriculum.layer_id,
     phase_id |-> item.curriculum.phase_id, dosage |-> item.curriculum.dosage,
     count |-> item.count]

get_emotional_landscape(user_id, start_param, end_param, now, limit) ==
    LET end_date == ResolveEnd(end_param, now)
        start_date == ResolveStart(start_param, end_date)
        entries == WindowRows(user_id, start_date, end_date)
        total_entries == Cardinality(entries)
        joined == JoinedOnPrimary(entries)
    IN  /\ IF total_entries = 0
           THEN response' = NotFound("emotional-landscape", user_id, start_param,
                                     start_date, end_date)
           ELSE \E layer_results \in Permutations(Distribution(
                        {<<j.curriculum.layer_id, j.row.id>> : j \in joined}, total_entries)),
                   phase_results \in Permutations(Distribution(
                        {<<j.curriculum.phase_id, j.row.id>> : j \in joined}, total_entries)),
                   primary_results \in Permutations(EmotionResults(joined)),
                   secondary_results \in
                       Permutations(EmotionResults(JoinedOnSecondary(entries))) :
                   LET emotion_counts ==
                           _accumulate_emotion_counts(
                               _accumulate_emotion_counts(<<>>, primary_results),
                               secondary_results)
                       sorted_emotions == SortedByCountDesc(emotion_counts)
                       top_emotions == [i \in DOMAIN sorted_emotions |->
                                           TopEmotionItem(sorted_emotions[i])]
                   IN  response' =
                           Ok("emotional-landscape", user_id, start_param,
                              start_date, end_date,
                              [limit |-> limit,
                               layer_distribution |-> layer_results,
                               phase_distribution |-> phase_results,
                               top_emotions |-> Take(top_emotions, limit)])
        /\ UNCHANGED <<journal, call, reference, caching, limiter, columns>>

---------------------------------------------------------------------------
(* GET /analytics/self-care *)

\* the limit query parameter of the self-care endpoint when omitted
DefaultStrategyLimit == 5

\* session.exec(select(Strategy).where(Strategy.id == id)).first(), as the
\* text the item shows
StrategyText(strategy_id) ==
    IF strategy_id \in StrategyIds
    THEN (CHOOSE st \in strategy : st.id = strategy_id).strategy
    ELSE "Unknown"

\* strategy_counts: one item per strategy id in the order of first
\* appearance in entries, with the number of entries that carry it
RECURSIVE StrategyCounts(_, _)
StrategyCounts(strategy_counts, entries) ==
    IF entries = <<>> THEN strategy_counts
    ELSE LET id == Head(entries).strategy_id[1]
             seen == {i \in DOMAIN strategy_counts : strategy_counts[i].strategy_id = id}
         IN  StrategyCounts(
                 IF seen = {}
                 THEN Append(strategy_counts, [strategy_id |-> id, count |-> 1])
                 ELSE [i \in DOMAIN strategy_counts |->
                          IF i \in seen
                          THEN [strategy_counts[i] EXCEPT !.count = @ + 1]
                          ELSE strategy_counts[i]],
                 Tail(entries))

TopStrategyItem(item, total_strategy_entries) ==
    [strategy_id |-> item.strategy_id,
     strategy |-> StrategyText(item.strategy_id),
     count |-> item.count,
     percentage |-> Frac(item.count * 100, total_strategy_entries)]

get_self_care_analytics(user_id, start_param, end_param, now, limit) ==
    LET end_date == ResolveEnd(end_param, now)
        start_date == ResolveStart(start_param, end_date)
        with_strategies == {r \in WindowRows(user_id, start_date, end_date) :
                               r.strategy_id # None}
        total_strategy_entries == Cardinality(with_strategies)
    IN  /\ IF total_strategy_entries = 0
           THEN response' = Ok("self-care", user_id, start_param, start_date, end_date,
                               [top_strategies |-> <<>>,
                                diversity_score |-> Zero,
                                total_strategy_entries |-> 0])
           ELSE \E entries_with_strategies \in Permutations(with_strategies) :
                   LET strategy_counts == StrategyCounts(<<>>, entries_with_strategies)
                       unique_strategies == Len(strategy_counts)
                       top_strategies_list ==
                           SortedByCountDesc(
                               [i \in DOMAIN strategy_counts |->
                                   TopStrategyItem(strategy_counts[i],
                                                   total_strategy_entries)])
                   IN  response' =
                           Ok("self-care", user_id, start_param, start_date, end_date,
                              [top_strategies |-> Take(top_strategies_list, limit),
                               diversity_score |->
                                   Frac(unique_strategies * 100, total_strategy_entries),
                               total_strategy_entries |-> total_strategy_entries])
        /\ UNCHANGED <<journal, call, reference, caching, limiter, columns>>

---------------------------------------------------------------------------
(* GET /analytics/temporal *)

\* datetime.hour
HourOf(t) == ((t % TicksPerDay) * 24) \div TicksPerDay

get_temporal_patterns(user_id, start_param, end_param, now) ==
    LET end_date == ResolveEnd(end_param, now)
        start_date == ResolveStart(start_param, end_date)
        entries == WindowRows(user_id, start_date, end_date)
        hours == SortedAsc({HourOf(r.created_at) : r \in entries})
        hourly_distribution ==
            [i \in DOMAIN hours |->
                [hour |-> hours[i],
                 count |-> Cardinality({r \in entries : HourOf(r.created_at) = hours[i]})]]
        unique_dates == {DateOf(r.created_at) : r \in entries}
        total_days == DateOf(end_date) - DateOf(start_date) + 1
    IN  /\ response' = Ok("temporal", user_id, start_param, start_date, end_date,
               [hourly_distribution |-> hourly_distribution,
                consistency_score |->
                    IF entries # {}
                    THEN Frac(Cardinality(unique_dates) * 100, total_days)
                    ELSE Zero])
        /\ UNCHANGED <<journal, call, reference, caching, limiter, columns>>

---------------------------------------------------------------------------
(* The overview over journals of two users *)

MaxJournal == 3

Users == {1, 2}

\* the users whose analytics are asked for
Viewers == {1}

NoResponse == [endpoint |-> "none"]
NoCall == [entries |-> <<>>, end_date |-> 0, ret |-> <<>>]

OptionalTimes == {None} \cup {Some(t) : t \in Times}

\* the windows a client asks for: start_date <= end_date when both are given;
\* an omitted end_date is the server's clock, which reads some time of Times
Windows ==
    {w \in OptionalTimes \X Times : w[1] # None => w[1][1] <= w[2]}

OverviewPayloads ==
    [created_at : Times, user_id : Users, curriculum_id : {1},
     secondary_curriculum_id : {None}, strategy_id : {None}]

Init ==
    /\ journal = {}
    /\ Seeded
    /\ ColdCache
    /\ NoRequests
    /\ CurrentSchema
    /\ response = NoResponse
    /\ call = NoCall

\* the client has taken the last response and may send its next request
Idle == response = NoResponse

ClientReceives ==
    /\ ~Idle
    /\ response' = NoResponse
    /\ UNCHANGED <<journal, call, reference, caching, limiter, columns>>

\* check-ins are journaled as they happen: no payload is dated before a row
\* already in the table
Chronological(payload) == \A r \in journal : r.created_at <= payload.created_at

CreateJournal ==
    \E payload \in OverviewPayloads :
        /\ Idle
        /\ Cardinality(journal) < MaxJournal
        /\ Chronological(payload)
        /\ create_journal(payload)

GetOverview ==
    \E user_id \in Viewers, w \in Windows :
        \E end_param \in {None, Some(w[2])} :
            /\ Idle
            /\ get_analytics_overview(user_id, w[1], end_param, w[2])

Next == CreateJournal \/ GetOverview \/ ClientReceives

Spec == Init /\ [][Next]_vars

---------------------------------------------------------------------------
(* Dosage ratio and trend: the overview and growth endpoints over check-ins
   of either dosage, with and without a secondary emotion *)

\* the first instant of each day
DayStarts == {t \in Times : t % TicksPerDay = 0}

DosagePayloads ==
    [created_at : DayStarts, user_id : {1}, curriculum_id : {1},
     secondary_curriculum_id : {None}, strategy_id : {None}]
    \cup
    [created_at : DayStarts, user_id : Users, curriculum_id : {10},
     secondary_curriculum_id : {None}, strategy_id : {None}]
    \cup
    [created_at : DayStarts, user_id : {1}, curriculum_id : {10},
     secondary_curriculum_id : {Some(1)}, strategy_id : {None}]

DosageCreateJournal ==
    \E payload \in DosagePayloads :
        /\ Idle
        /\ Cardinality(journal) < MaxJournal
        /\ Chronological(payload)
        /\ create_journal(payload)

GetGrowth ==
    \E user_id \in Viewers, w \in Windows :
        \E end_param \in {None, Some(w[2])} :
            /\ Idle
            /\ get_growth_indicators(user_id, w[1], end_param, w[2])

DosageNext == DosageCreateJournal \/ GetOverview \/ GetGrowth \/ ClientReceives

SpecDosage == Init /\ [][DosageNext]_vars

---------------------------------------------------------------------------
(* The emotional landscape over check-ins on the first and the last day *)

LandscapePayloads ==
    [created_at : {0, Days(MaxDay)}, user_id : {1}, curriculum_id : {1, 2},
     secondary_curriculum_id : {None, Some(1), Some(2)}, strategy_id : {None}]
    \cup
    [created_at : {0, Days(MaxDay)}, user_id : Users \ {1}, curriculum_id : {1},
     secondary_curriculum_id : {None}, strategy_id : {None}]

\* the limit query parameter: a small one, and the default
Limits == {1, 10}

LandscapeCreateJournal ==
    \E payload \in LandscapePayloads :
        /\ Idle
        /\ Cardinality(journal) < MaxJournal
        /\ Chronological(payload)
        /\ create_journal(payload)

GetLandscape ==
    \E user_id \in Viewers, w \in Windows, limit \in Limits :
        \E end_param \in {None, Some(w[2])} :
            /\ Idle
            /\ get_emotional_landscape(user_id, w[1], end_param, w[2], limit)

LandscapeNext == LandscapeCreateJournal \/ GetLandscape \/ ClientReceives

SpecLandscape == Init /\ [][LandscapeNext]_vars

---------------------------------------------------------------------------
(* Self-care, temporal patterns and growth over check-ins at any time of   *)
(* day, with and without a strategy                                        *)

ZeroedPayloads ==
    [created_at : Times, user_id : {1}, curriculum_id : {1},
     secondary_curriculum_id : {None}, strategy_id : {None, Some(1)}]
    \cup
    [created_at : DayStarts, user_id : {1}, curriculum_id : {1},
     secondary_curriculum_id : {None}, strategy_id : {Some(4)}]

\* the limit query parameter: a small one, and the default
StrategyLimits == {1, DefaultStrategyLimit}

ZeroedCreateJournal ==
    \E payload \in ZeroedPayloads :
        /\ Idle
        /\ Cardinality(journal) < MaxJournal
        /\ Chronological(payload)
        /\ create_journal(payload)

GetSelfCare ==
    \E user_id \in Viewers, w \in Windows, limit \in StrategyLimits :
        \E end_param \in {None, Some(w[2])} :
            /\ Idle
            /\ get_self_care_analytics(user_id, w[1], end_param, w[2], limit)

GetTemporal ==
    \E user_id \in Viewers, w \in Windows :
        \E end_param \in {None, Some(w[2])} :
            /\ Idle
            /\ get_temporal_patterns(user_id, w[1], end_param, w[2])

ZeroedNext ==
    ZeroedCreateJournal \/ GetSelfCare \/ GetTemporal \/ GetGrowth \/ ClientReceives

SpecZeroed == Init /\ [][ZeroedNext]_vars

---------------------------------------------------------------------------
(* The dominant layer and phase: overviews over check-ins that lie more    *)
(* than the trailing window apart                                          *)

\* two early days, and two days more than DominantWindowDays later
DominantTimes ==
    {Days(d) : d \in {0, 1}} \cup {Days(DominantWindowDays + d) : d \in {1, 2}}

DominantWindows ==
    {w \in ({None} \cup {Some(t) : t \in DominantTimes}) \X DominantTimes :
        w[1] # None => w[1][1] <= w[2]}

DominantPayloads ==
    [created_at : DominantTimes, user_id : {1}, curriculum_id : {1, 2, 19},
     secondary_curriculum_id : {None}, strategy_id : {None}]
    \cup
    [created_at : DominantTimes, user_id : Users \ {1}, curriculum_id : {2},
     secondary_curriculum_id : {None}, strategy_id : {None}]

DominantCreateJournal ==
    \E payload \in DominantPayloads :
        /\ Idle
        /\ Cardinality(journal) < MaxJournal
        /\ Chronological(payload)
        /\ create_journal(payload)

DominantGetOverview ==
    \E user_id \in Viewers, w \in DominantWindows :
        \E end_param \in {None, Some(w[2])} :
            /\ Idle
            /\ get_analytics_overview(user_id, w[1], end_param, w[2])

DominantNext == DominantCreateJournal \/ DominantGetOverview \/ ClientReceives

SpecDominant == Init /\ [][DominantNext]_vars

---------------------------------------------------------------------------
(* Referential integrity: journals, curriculum rows and strategies are     *)
(* created, updated and deleted in any order                               *)

\* rows a table may gain beyond its seeded ids
MaxNewRows == 1

\* journal rows of this scenario
MaxRefJournal == 2

NewCurriculumId == SetMax({c.id : c \in CurriculumTable}) + 1
NewStrategyId == SetMax({st.id : st \in StrategyTable}) + 1

\* a layer id and a phase id that name no row
NoSuchLayer == 9
NoSuchPhase == 9

\* a body without fields
EmptyBody == [key \in {} |-> None]

RefPayloads ==
    [created_at : {0}, user_id : {1}, curriculum_id : {1, 2, NewCurriculumId},
     secondary_curriculum_id : {None, Some(2)}, strategy_id : {None, Some(1)}]

RefBodies ==
    {EmptyBody,
     [curriculum_id |-> Some(2)],
     [curriculum_id |-> None],
     [secondary_curriculum_id |-> Some(NewCurriculumId)],
     [strategy_id |-> Some(NewStrategyId)],
     [strategy_id |-> None]}

RefCreateJournal ==
    \E payload \in RefPayloads :
        /\ Idle
        /\ NextJournalId <= MaxRefJournal
        /\ create_journal(payload)

RefUpdateJournal ==
    \E journal_id \in 1 .. MaxRefJournal, data \in RefBodies :
        /\ Idle
        /\ update_journal(journal_id, data)

RefDeleteJournal ==
    \E journal_id \in 1 .. MaxRefJournal :
        /\ Idle
        /\ delete_journal(journal_id)

CreateCurriculum ==
    \E payload \in [layer_id : {1, NoSuchLayer}, phase_id : {1}, dosage : {"Toxic"}] :
        /\ Idle
        /\ NextId(curriculum) < NewCurriculumId + MaxNewRows
        /\ create_curriculum(payload)

UpdateCurriculum ==
    \E data \in {[layer_id |-> 2], [phase_id |-> NoSuchPhase]} :
        /\ Idle
        /\ update_curriculum(NewCurriculumId, data)

DeleteCurriculum ==
    \E curriculum_id \in {1, 2, NewCurriculumId} :
        /\ Idle
        /\ delete_curriculum(curriculum_id)

CreateStrategy ==
    \E payload \in [strategy : {"Cold Shower"}, layer_id : {1},
                     color_layer_id : {1, NoSuchLayer}, phase_id : {1}] :
        /\ Idle
        /\ NextId(strategy) < NewStrategyId + MaxNewRows
        /\ create_strategy(payload)

UpdateStrategy ==
    \E data \in {[phase_id |-> 5], [phase_id |-> NoSuchPhase]} :
        /\ Idle
        /\ update_strategy(NewStrategyId, data)

DeleteStrategy ==
    \E strategy_id \in {1, NewStrategyId} :
        /\ Idle
        /\ delete_strategy(strategy_id)

RefNext ==
    \/ RefCreateJournal \/ RefUpdateJournal \/ RefDeleteJournal
    \/ CreateCurriculum \/ UpdateCurriculum \/ DeleteCurriculum
    \/ CreateStrategy \/ UpdateStrategy \/ DeleteStrategy
    \/ ClientReceives

SpecIntegrity == Init /\ [][RefNext]_vars

---------------------------------------------------------------------------
(* Journal writes of two users, with good and bad references, next to a    *)
(* caller that keeps analytics results in the cache as cache.py documents  *)

\* a curriculum id and a strategy id that name no row
NoSuchCurriculum == 999
NoSuchStrategy == 999

WritePayloads ==
    [created_at : {0}, user_id : Users, curriculum_id : {1, NoSuchCurriculum},
     secondary_curriculum_id : {None, Some(NoSuchCurriculum)},
     strategy_id : {None, Some(NoSuchStrategy)}]

WriteBodies ==
    {EmptyBody,
     [user_id |-> Some(2)],
     [curriculum_id |-> Some(10)],
     [curriculum_id |-> Some(NoSuchCurriculum)],
     [secondary_curriculum_id |-> Some(NoSuchCurriculum)],
     [strategy_id |-> Some(1)],
     [strategy_id |-> Some(NoSuchStrategy)]}

\* the key under which a user's overview of a fixed window is cached
OverviewKey(user_id) ==
    make_cache_key(user_id, "overview", "2025-09-01", "2025-09-30", NoKwargs)

\* the cached result, computed from the journal table: the user's entries
OverviewValue(user_id) == Cardinality({r \in journal : r.user_id = user_id})

WriteCreateJournal ==
    \E payload \in WritePayloads :
        /\ Idle
        /\ NextJournalId <= MaxRefJournal
        /\ create_journal(payload)

WriteUpdateJournal ==
    \E journal_id \in 1 .. MaxRefJournal, data \in WriteBodies :
        /\ Idle
        /\ update_journal(journal_id, data)

WriteDeleteJournal ==
    \E journal_id \in 1 .. MaxRefJournal :
        /\ Idle
        /\ delete_journal(journal_id)

\* result = cache.get(key); if result is None: result = ...; cache.set(key, result)
CachedOverview ==
    \E user_id \in Users :
        /\ Idle
        /\ cache' = (IF get_returns(OverviewKey(user_id)) = None
                     THEN set(OverviewKey(user_id), OverviewValue(user_id))
                     ELSE get(OverviewKey(user_id)))
        /\ response' = [endpoint |-> "cached-overview", user_id |-> user_id,
                        status |-> 200,
                        body |-> (IF get_returns(OverviewKey(user_id)) = None
                                  THEN OverviewValue(user_id)
                                  ELSE get_returns(OverviewKey(user_id))[1])]
        /\ UNCHANGED <<journal, call, reference, clock, limiter, columns>>

WriteNext ==
    \/ WriteCreateJournal \/ WriteUpdateJournal \/ WriteDeleteJournal
    \/ CachedOverview \/ ClientReceives

SpecWrites == Init /\ [][WriteNext]_vars

---------------------------------------------------------------------------
(* The journal router on its own: create, get, update and delete in any    *)
(* order, response holding the answer of the latest request                *)

\* the largest journal id handed out
MaxCrudJournal == 2

CrudPayloads ==
    [created_at : {0}, user_id : {1}, curriculum_id : {1, NoSuchCurriculum},
     secondary_curriculum_id : {None, Some(2)}, strategy_id : {None, Some(1)}]

\* request bodies of PUT: empty, one field, several fields, explicit nulls
CrudBodies ==
    {EmptyBody,
     [user_id |-> Some(2)],
     [created_at |-> Some(TicksPerDay)],
     [curriculum_id |-> Some(10)],
     [curriculum_id |-> Some(NoSuchCurriculum)],
     [secondary_curriculum_id |-> None],
     [secondary_curriculum_id |-> Some(10)],
     [strategy_id |-> None],
     [strategy_id |-> Some(4)],
     [user_id |-> None],
     [curriculum_id |-> Some(2), strategy_id |-> None],
     [secondary_curriculum_id |-> None, strategy_id |-> Some(4), user_id |-> Some(2)]}

CrudCreateJournal ==
    \E payload \in CrudPayloads :
        /\ NextJournalId <= MaxCrudJournal
        /\ create_journal(payload)

CrudGetJournal ==
    \E journal_id \in 1 .. MaxCrudJournal : get_journal(journal_id)

CrudUpdateJournal ==
    \E journal_id \in 1 .. MaxCrudJournal, data \in CrudBodies :
        update_journal(journal_id, data)

CrudDeleteJournal ==
    \E journal_id \in 1 .. MaxCrudJournal : delete_journal(journal_id)

CrudNext ==
    \/ CrudCreateJournal
    \/ CrudGetJournal
    \/ CrudUpdateJournal
    \/ CrudDeleteJournal

SpecCrud == Init /\ [][CrudNext]_vars

---------------------------------------------------------------------------
(* The catalog (src/backend/services/catalog.py) next to the phase router  *)
(* (src/backend/routers/phase.py), which creates, renames and deletes      *)
(* Phase rows                                                              *)

\* backend/constants.py
PHASE_ORDER ==
    <<"Rising", "Peaking", "Withdrawal", "Diminishing", "Bottoming Out", "Restoration">>

PhaseIds == {p.id : p \in phase}

PhaseRow(id) == CHOOSE p \in phase : p.id = id

\* (phase.id, phase.name) of select(Phase).order_by(Phase.id)
phase_template ==
    LET ids == SortedAsc(PhaseIds)
    IN  [i \in 1 .. Len(ids) |-> <<ids[i], PhaseRow(ids[i]).name>>]

\* the ids of a layer's curriculum rows of one phase and dosage, in the order
\* they are appended
CatalogEntries(layer_id, phase_id, medicinal) ==
    SortedAsc({c.id : c \in {x \in curriculum :
                                /\ x.layer_id = layer_id
                                /\ x.phase_id = phase_id
                                /\ (x.dosage = "Medicinal") = medicinal}})

\* CatalogStrategy(id=..., strategy=...) is built for a strategy of a loaded
\* layer whose phase is in the template; the schema requires color as well
BuildsCatalogStrategy ==
    \E st \in strategy :
        /\ st.layer_id \in {l.id : l \in layer}
        /\ st.phase_id \in PhaseIds

build_catalog ==
    LET template == phase_template
        layer_ids == SortedAsc({l.id : l \in layer})
        catalog_phases(layer_id) ==
            [i \in 1 .. Len(template) |->
                [id |-> template[i][1],
                 name |-> template[i][2],
                 medicinal |-> CatalogEntries(layer_id, template[i][1], TRUE),
                 toxic |-> CatalogEntries(layer_id, template[i][1], FALSE),
                 strategies |-> <<>>]]
    IN  [phase_order |-> [i \in 1 .. Len(template) |-> template[i][2]],
         layers |-> [k \in 1 .. Len(layer_ids) |->
                        [id |-> layer_ids[k],
                         color |-> (CHOOSE l \in layer : l.id = layer_ids[k]).color,
                         phases |-> catalog_phases(layer_ids[k])]]]

\* GET /catalog
get_catalog ==
    /\ response' = (IF BuildsCatalogStrategy
                    THEN [endpoint |-> "get_catalog", status |-> 500]
                    ELSE [endpoint |-> "get_catalog", status |-> 200,
                          body |-> build_catalog])
    /\ UNCHANGED <<journal, call, reference, caching, limiter, columns>>

\* POST /phase
create_phase(name) ==
    /\ phase' = phase \cup {[id |-> NextId(phase), name |-> name]}
    /\ response' = Answer("create_phase", NextId(phase), name, 201)
    /\ UNCHANGED <<journal, call, layer, curriculum, strategy, caching, limiter, columns>>

\* PUT /phase/{phase_id}; name is None when the body leaves it out
update_phase(phase_id, name) ==
    /\ IF phase_id \notin PhaseIds
       THEN /\ UNCHANGED phase
            /\ response' = Answer("update_phase", phase_id, name, 404)
       ELSE /\ phase' = {IF p.id = phase_id /\ name # None
                         THEN [p EXCEPT !.name = name[1]] ELSE p : p \in phase}
            /\ response' = Answer("update_phase", phase_id, name, 200)
    /\ UNCHANGED <<journal, call, layer, curriculum, strategy, caching, limiter, columns>>

\* session.delete(phase) first sets phase_id of the rows that name it to
\* NULL, which the NOT NULL columns refuse
PhaseDeleteBlocked(phase_id) ==
    \/ \E c \in curriculum : c.phase_id = phase_id
    \/ \E st \in strategy : st.phase_id = phase_id

\* DELETE /phase/{phase_id}
delete_phase(phase_id) ==
    /\ IF phase_id \notin PhaseIds
       THEN /\ UNCHANGED phase
            /\ response' = Answer("delete_phase", phase_id, <<>>, 404)
       ELSE IF PhaseDeleteBlocked(phase_id)
       THEN /\ UNCHANGED phase
            /\ response' = Answer("delete_phase", phase_id, <<>>, 500)
       ELSE /\ phase' = {p \in phase : p.id # phase_id}
            /\ response' = Answer("delete_phase", phase_id, <<>>, 204)
    /\ UNCHANGED <<journal, call, layer, curriculum, strategy, caching, limiter, columns>>

\* the largest id a created phase gets
MaxPhaseId == 3

\* names given to phases
PhaseNames == {"Rising", "Peaking", "Bottoming Out"}

\* every reference table and the journal emptied
Cleared ==
    /\ layer = {}
    /\ phase = {}
    /\ curriculum = {}
    /\ strategy = {}

\* the database as seeded, or emptied
CatalogInit ==
    /\ journal = {}
    /\ (Seeded \/ Cleared)
    /\ ColdCache
    /\ NoRequests
    /\ CurrentSchema
    /\ response = NoResponse
    /\ call = NoCall

CreatePhase ==
    \E name \in PhaseNames :
        /\ Idle
        /\ NextId(phase) <= MaxPhaseId
        /\ create_phase(name)

UpdatePhase ==
    \E phase_id \in PhaseIds \cup {NoSuchPhase}, name \in {None} \cup {Some(n) : n \in PhaseNames} :
        /\ Idle
        /\ update_phase(phase_id, name)

DeletePhase ==
    \E phase_id \in PhaseIds \cup {NoSuchPhase} :
        /\ Idle
        /\ delete_phase(phase_id)

CatalogDeleteStrategy ==
    \E strategy_id \in StrategyIds :
        /\ Idle
        /\ delete_strategy(strategy_id)

GetCatalog ==
    /\ Idle
    /\ get_catalog

CatalogNext ==
    \/ CreatePhase
    \/ UpdatePhase
    \/ DeletePhase
    \/ CatalogDeleteStrategy
    \/ GetCatalog
    \/ ClientReceives

SpecCatalog == CatalogInit /\ [][CatalogNext]_vars

---------------------------------------------------------------------------
(* Startup seeding: seed_data (src/app/seed_data.py), which commits table  *)
(* by table, and seed_database (src/backend/tools/seed_data.py), which     *)
(* commits once at the end.  response records what a run did: the tables   *)
(* it filled, and how many runs of that function came one after the other  *)

\* rows of the Journal table, from the seed fixtures
JournalFixture ==
    { [id |-> 1, created_at |-> 0, user_id |-> 1, curriculum_id |-> 10,
       secondary_curriculum_id |-> Some(2), strategy_id |-> Some(4)],
      [id |-> 2, created_at |-> TicksPerDay, user_id |-> 2, curriculum_id |-> 19,
       secondary_curriculum_id |-> Some(1), strategy_id |-> None] }

\* a table is filled whatever it holds
SeedsAlways(table) == TRUE

\* session.exec(select(Table).limit(1)).first() is None; layer_count == 0
SeedsTable(table) == table = {}

\* a table after the seeding step for it
SeededFrom(table, fixture) == IF SeedsTable(table) THEN fixture ELSE table

\* the tables a run changes, by name
Inserted(l, p, c, st, j) ==
    {n \in {"layer", "phase", "curriculum", "strategy", "journal"} :
        \/ n = "layer" /\ l # layer
        \/ n = "phase" /\ p # phase
        \/ n = "curriculum" /\ c # curriculum
        \/ n = "strategy" /\ st # strategy
        \/ n = "journal" /\ j # journal}

\* runs of one seeding function one after the other, this one included
Runs(endpoint) == IF response.endpoint = endpoint THEN response.runs + 1 ELSE 1

Report(endpoint, status, inserted) ==
    [endpoint |-> endpoint, status |-> status, runs |-> Runs(endpoint),
     inserted |-> inserted,
     first |-> IF response.endpoint = endpoint THEN response.first ELSE inserted]

\* app.seed_data.seed_data: each _seed_* commits its own rows
seed_data ==
    LET l == SeededFrom(layer, LayerTable)
        p == SeededFrom(phase, PhaseTable)
        c == SeededFrom(curriculum, CurriculumTable)
        st == SeededFrom(strategy, StrategyTable)
        j == SeededFrom(journal, JournalFixture)
    IN  /\ layer' = l
        /\ phase' = p
        /\ curriculum' = c
        /\ strategy' = st
        /\ journal' = j
        /\ response' = Report("seed_data", "done", Inserted(l, p, c, st, j))
        /\ UNCHANGED <<call, caching, limiter, columns>>

\* the rows seed_database adds are refused by the database: Strategy rows
\* are built without color_layer_id, which is NOT NULL, and with
\* PRAGMA foreign_keys=ON an added row has to name rows that exist
Refused(l, p, c, st, j) ==
    \/ strategy = {}
    \/ /\ curriculum = {}
       /\ \E row \in c : \/ row.layer_id \notin {x.id : x \in l}
                          \/ row.phase_id \notin {x.id : x \in p}
    \/ /\ journal = {}
       /\ \E row \in j :
              \/ row.curriculum_id \notin {x.id : x \in c}
              \/ /\ row.secondary_curriculum_id # None
                 /\ row.secondary_curriculum_id[1] \notin {x.id : x \in c}
              \/ /\ row.strategy_id # None
                 /\ row.strategy_id[1] \notin {x.id : x \in st}

\* backend.tools.seed_data.seed_database: one session, one commit at the end
seed_database ==
    LET l == SeededFrom(layer, LayerTable)
        p == SeededFrom(phase, PhaseTable)
        c == SeededFrom(curriculum, CurriculumTable)
        st == SeededFrom(strategy, StrategyTable)
        j == SeededFrom(journal, JournalFixture)
    IN  /\ IF Refused(l, p, c, st, j)
           THEN /\ UNCHANGED <<journal, reference>>
                /\ response' = Report("seed_database", "failed", {})
           ELSE /\ layer' = l
                /\ phase' = p
                /\ curriculum' = c
                /\ strategy' = st
                /\ journal' = j
                /\ response' = Report("seed_database", "done", Inserted(l, p, c, st, j))
        /\ UNCHANGED <<call, caching, limiter, columns>>

\* runs of seeding in a row
MaxSeedRuns == 2

\* the database found at startup: each table empty, as the fixtures fill
\* it, or holding a row that is not a fixture row
SeedInit ==
    /\ layer \in {{}, LayerTable, {[id |-> 1, color |-> "Crimson"]}}
    /\ phase \in {{}, PhaseTable, {[id |-> 1, name |-> "Restoration"]}}
    /\ curriculum \in {{}, CurriculumTable,
                       {[id |-> 1, layer_id |-> 1, phase_id |-> 1, dosage |-> "Toxic"]}}
    /\ strategy \in {{}, StrategyTable,
                     {[id |-> 1, strategy |-> "Napping", layer_id |-> 1,
                       color_layer_id |-> 1, phase_id |-> 1]}}
    /\ journal \in {{}, JournalFixture,
                    {[id |-> 1, created_at |-> 0, user_id |-> 3, curriculum_id |-> 1,
                      secondary_curriculum_id |-> None, strategy_id |-> None]}}
    /\ ColdCache
    /\ NoRequests
    /\ CurrentSchema
    /\ response = NoResponse
    /\ call = NoCall

SeedData ==
    /\ Runs("seed_data") <= MaxSeedRuns
    /\ seed_data

SeedDatabase ==
    /\ Runs("seed_database") <= MaxSeedRuns
    /\ seed_database

SeedNext == SeedData \/ SeedDatabase

SpecSeeding == SeedInit /\ [][SeedNext]_vars

---------------------------------------------------------------------------
(* Timestamp canonicalization: _coerce_datetime (src/backend/schemas.py),  *)
(* to_utc_naive (src/backend/utils.py) and ensure_aware (src/app/utils.py).*)
(* A datetime is its wall-clock reading in minutes and its tzinfo, None or *)
(* a UTC offset in minutes; an ISO-8601 string is its wall-clock reading   *)
(* and its zone suffix                                                     *)

PyNone == [kind |-> "None"]

Datetime(wall, tz) == [kind |-> "datetime", wall |-> wall, tz |-> tz]

IsoString(wall, suffix) == [kind |-> "str", wall |-> wall, suffix |-> suffix]

\* tzinfo=UTC
UTC == Some(0)

\* value.replace("Z", "+00:00")
ReplaceZ(suffix) == IF suffix = "Z" THEN "+00:00" ELSE suffix

\* datetime.fromisoformat on a string without a Z
fromisoformat(wall, suffix) ==
    Datetime(wall, CASE suffix = "" -> None
                     [] suffix = "+00:00" -> Some(0)
                     [] suffix = "+02:00" -> Some(120)
                     [] suffix = "-05:00" -> Some(0 - 300))

\* dt.astimezone(UTC) of an aware datetime
astimezone_utc(dt) == Datetime(dt.wall - dt.tz[1], UTC)

\* the zone marker dropped, the reading kept
ToUtcNaiveKeepsReading(dt) == Datetime(dt.wall, None)

\* backend.utils.to_utc_naive
to_utc_naive(dt) ==
    LET aware == IF dt.tz = None THEN Datetime(dt.wall, UTC) ELSE astimezone_utc(dt)
    IN  Datetime(aware.wall, None)

\* app.utils.ensure_aware
ensure_aware(dt) ==
    IF dt.tz = None THEN Datetime(dt.wall, UTC) ELSE astimezone_utc(dt)

\* backend.schemas._coerce_datetime
_coerce_datetime(value) ==
    IF value = PyNone THEN PyNone
    ELSE LET parsed == IF value.kind = "str"
                       THEN fromisoformat(value.wall, ReplaceZ(value.suffix))
                       ELSE value
             aware == IF parsed.tz = None THEN Datetime(parsed.wall, UTC) ELSE parsed
         IN  astimezone_utc(aware)

\* wall-clock readings, in minutes of one day
Walls == {720, 780, 840}

\* UTC offsets of aware inputs, in minutes
Offsets == {0, 60, 120, 0 - 300}

Datetimes == {Datetime(w, tz) : w \in Walls, tz \in {None} \cup {Some(o) : o \in Offsets}}

IsoStrings == {IsoString(w, x) : w \in Walls, x \in {"", "Z", "+00:00", "+02:00", "-05:00"}}

\* what a function is called on
Arguments(fn) ==
    IF fn = "_coerce_datetime" THEN Datetimes \cup IsoStrings \cup {PyNone} ELSE Datetimes

Canonicalize(fn, value) ==
    CASE fn = "_coerce_datetime" -> _coerce_datetime(value)
      [] fn = "ensure_aware" -> ensure_aware(value)
      [] fn = "to_utc_naive" -> to_utc_naive(value)

\* two values waiting to be canonicalized
CanonInit ==
    /\ journal = {}
    /\ Seeded
    /\ ColdCache
    /\ NoRequests
    /\ CurrentSchema
    /\ response = NoResponse
    /\ \E a, b \in Datetimes \cup IsoStrings \cup {PyNone} : call = [a |-> a, b |-> b]

\* one function applied to both values
Canonicalized(fn) ==
    /\ Idle
    /\ call.a \in Arguments(fn)
    /\ call.b \in Arguments(fn)
    /\ response' = [endpoint |-> fn, a |-> call.a, b |-> call.b,
                    ret_a |-> Canonicalize(fn, call.a),
                    ret_b |-> Canonicalize(fn, call.b),
                    of_result |-> FALSE]
    /\ UNCHANGED <<journal, call, reference, caching, limiter, columns>>

CallCoerceDatetime == Canonicalized("_coerce_datetime")

CallEnsureAware == Canonicalized("ensure_aware")

CallToUtcNaive == Canonicalized("to_utc_naive")

\* the function applied to its own results
CallAgain ==
    /\ ~Idle
    /\ ~response.of_result
    /\ response' = [response EXCEPT
                        !.a = response.ret_a,
                        !.b = response.ret_b,
                        !.ret_a = Canonicalize(response.endpoint, response.ret_a),
                        !.ret_b = Canonicalize(response.endpoint, response.ret_b),
                        !.of_result = TRUE]
    /\ UNCHANGED <<journal, call, reference, caching, limiter, columns>>

CanonNext == CallCoerceDatetime \/ CallEnsureAware \/ CallToUtcNaive \/ CallAgain

SpecCanonical == CanonInit /\ [][CanonNext]_vars

---------------------------------------------------------------------------
(* The rate limiter (src/backend/app.py).  rate_limit is a plain function  *)
(* used as a dependency, so the framework runs it on a pool thread; a      *)
(* thread goes through it statement by statement.  Times are seconds.      *)
(* call.log lists the finished calls in the order they finished            *)

RATE_LIMIT == 100

\* timedelta(minutes=1)
RATE_PERIOD == 60

\* a finished call of rate_limit
Finished(w, status) ==
    /\ response' = [endpoint |-> "rate_limit", ip |-> worker[w].ip,
                    now |-> worker[w].now, status |-> status]
    /\ call' = [call EXCEPT !.log = Append(@, [ip |-> worker[w].ip,
                                               now |-> worker[w].now,
                                               status |-> status])]
    /\ worker' = [worker EXCEPT ![w] = IdleWorker]

\* now = datetime.now(UTC); ip = request.client.host; times = _request_times[ip]
Begin(w, ip) ==
    /\ worker[w].pc = "idle"
    /\ worker' = [worker EXCEPT ![w] = [pc |-> "while", ip |-> ip, now |-> clock]]
    /\ call' = [call EXCEPT !.begun = @ + 1]
    /\ UNCHANGED <<journal, response, reference, caching, _request_times, columns>>

\* while times and now - times[0] > RATE_PERIOD:
While(w) ==
    /\ worker[w].pc = "while"
    /\ LET times == _request_times[worker[w].ip]
       IN  worker' = [worker EXCEPT ![w].pc =
                         IF times # <<>> /\ worker[w].now - times[1] > RATE_PERIOD
                         THEN "popleft" ELSE "if"]
    /\ UNCHANGED <<journal, response, call, reference, caching, _request_times, columns>>

\* times.popleft(); IndexError on an empty deque
Popleft(w) ==
    /\ worker[w].pc = "popleft"
    /\ IF _request_times[worker[w].ip] = <<>>
       THEN /\ Finished(w, 500)
            /\ UNCHANGED _request_times
       ELSE /\ _request_times' = [_request_times EXCEPT ![worker[w].ip] = Tail(@)]
            /\ worker' = [worker EXCEPT ![w].pc = "while"]
            /\ UNCHANGED <<response, call>>
    /\ UNCHANGED <<journal, reference, caching, columns>>

\* the check passes one entry late
LimitExceeded(times) == Len(times) > RATE_LIMIT

\* len(times) >= RATE_LIMIT
LimitReached(times) == Len(times) >= RATE_LIMIT

\* if len(times) >= RATE_LIMIT: raise HTTPException(status_code=429)
If(w) ==
    /\ worker[w].pc = "if"
    /\ IF LimitReached(_request_times[worker[w].ip])
       THEN Finished(w, 429)
       ELSE /\ worker' = [worker EXCEPT ![w].pc = "append"]
            /\ UNCHANGED <<response, call>>
    /\ UNCHANGED <<journal, reference, caching, _request_times, columns>>

\* times.append(now); the request goes on to its endpoint
AppendNow(w) ==
    /\ worker[w].pc = "append"
    /\ _request_times' = [_request_times EXCEPT ![worker[w].ip] = Append(@, worker[w].now)]
    /\ Finished(w, 200)
    /\ UNCHANGED <<journal, reference, caching, columns>>

\* calls of one scenario
MaxRateCalls == 4

\* accepted calls already in the deque of the first host when a scenario starts
Prefilled == RATE_LIMIT - 2

\* the instants of a scenario: around the start and around the end of the
\* period of a call made at the start
RateTimes == {0, 1, RATE_PERIOD, RATE_PERIOD + 1}

\* the first host has made Prefilled calls at the start, all accepted
RateInit ==
    /\ journal = {}
    /\ Seeded
    /\ ColdCache
    /\ response = NoResponse
    /\ _request_times = [ip \in IPs |->
                            IF ip = "10.0.0.1" THEN [i \in 1 .. Prefilled |-> 0] ELSE <<>>]
    /\ worker = [w \in Workers |-> IdleWorker]
    /\ CurrentSchema
    /\ call = [begun |-> 0,
               log |-> [i \in 1 .. Prefilled |->
                           [ip |-> "10.0.0.1", now |-> 0, status |-> 200]]]

RateTick ==
    \E later \in RateTimes :
        /\ later > clock
        /\ clock' = later
        /\ UNCHANGED <<journal, response, call, reference, cache, limiter, columns>>

\* a request arrives while no other is inside rate_limit
RequestAlone ==
    \E ip \in IPs :
        /\ call.begun < MaxRateCalls
        /\ \A w \in Workers : worker[w].pc = "idle"
        /\ Begin(1, ip)

\* calls of one scenario with two threads
MaxRaceCalls == 3

\* a request arrives and is given a free thread
Request ==
    \E w \in Workers, ip \in IPs :
        /\ call.begun < MaxRaceCalls
        /\ Begin(w, ip)

RunWhile == \E w \in Workers : While(w)

RunPopleft == \E w \in Workers : Popleft(w)

RunIf == \E w \in Workers : If(w)

RunAppend == \E w \in Workers : AppendNow(w)

\* requests one at a time
RateNext == RequestAlone \/ RunWhile \/ RunPopleft \/ RunIf \/ RunAppend \/ RateTick

SpecRateLimit == RateInit /\ [][RateNext]_vars

\* requests as the thread pool takes them
RaceNext == Request \/ RunWhile \/ RunPopleft \/ RunIf \/ RunAppend \/ RateTick

SpecRateRace == RateInit /\ [][RaceNext]_vars

---------------------------------------------------------------------------
(* Analytics requests whose start_date and end_date are written with a UTC *)
(* offset.  FastAPI hands the handler aware datetimes that keep the offset *)
(* as written; the handlers pass them on as they are.  call holds the      *)
(* request being served and the latest answered request written in UTC     *)

\* what the handlers take from an aware datetime: the SQLite DateTime type
\* binds its year .. microsecond fields and .date() reads its calendar date,
\* both the reading as written, the offset left aside
Reading(dt) == dt.wall

\* journal rows of one scenario
MaxOffsetJournal == 2

\* offsets a window is written in, in ticks east of UTC
WindowOffsets == {0 - 1, 0, 1}

\* the instants a window starts and ends at
StartInstants == {Days(1), Days(1) + 1}
EndInstants == {Days(2), Days(2) + 1}

\* both bounds written in the same offset
OffsetRequests ==
    {[endpoint |-> e, user_id |-> 1,
      start_date |-> Datetime(s + o, Some(o)),
      end_date |-> Datetime(t + o, Some(o))] :
        e \in {"overview", "temporal"}, s \in StartInstants,
        t \in EndInstants, o \in WindowOffsets}

NoOffsetRequest == [endpoint |-> "none"]

OffsetPayloads ==
    [created_at : Days(1) .. (Days(3) - 1), user_id : {1}, curriculum_id : {1},
     secondary_curriculum_id : {None}, strategy_id : {None}]

OffsetInit ==
    /\ journal = {}
    /\ Seeded
    /\ ColdCache
    /\ NoRequests
    /\ CurrentSchema
    /\ response = NoResponse
    /\ call = [request |-> NoOffsetRequest, previous |-> None]

\* a request has arrived and is not answered yet
Pending == call.request # NoOffsetRequest /\ response = NoResponse

\* the request in call was answered and nothing else since
Answered ==
    /\ call.request # NoOffsetRequest
    /\ response.endpoint = call.request.endpoint

OffsetCreateJournal ==
    \E payload \in OffsetPayloads :
        /\ ~Pending
        /\ Cardinality(journal) < MaxOffsetJournal
        /\ Chronological(payload)
        /\ create_journal(payload)

\* the next request arrives; an answered request written in UTC is kept,
\* with its answer and the journal it was answered from
ReceiveRequest ==
    \E request \in OffsetRequests :
        /\ ~Pending
        /\ call' = [request |-> request,
                    previous |->
                        IF Answered /\ call.request.start_date.tz = UTC
                        THEN Some([request |-> call.request,
                                   response |-> response, rows |-> journal])
                        ELSE call.previous]
        /\ response' = NoResponse
        /\ UNCHANGED <<journal, reference, caching, limiter, columns>>

ServeOverview ==
    /\ Pending
    /\ call.request.endpoint = "overview"
    /\ get_analytics_overview(call.request.user_id,
                              Some(Reading(call.request.start_date)),
                              Some(Reading(call.request.end_date)),
                              Reading(call.request.end_date))

ServeTemporal ==
    /\ Pending
    /\ call.request.endpoint = "temporal"
    /\ get_temporal_patterns(call.request.user_id,
                             Some(Reading(call.request.start_date)),
                             Some(Reading(call.request.end_date)),
                             Reading(call.request.end_date))

OffsetNext == OffsetCreateJournal \/ ReceiveRequest \/ ServeOverview \/ ServeTemporal

SpecOffsets == OffsetInit /\ [][OffsetNext]_vars

---------------------------------------------------------------------------
(* Startups over a database file that may hold a journal table of an       *)
(* earlier schema, with check-ins written between them; call counts the    *)
(* startups                                                                *)

\* startups of one scenario
MaxStartups == 3

\* journal rows at a time
MaxStartupJournal == 3

\* the table test_startup_rebuilds_outdated_journal_table creates by hand
OutdatedColumns ==
    {"id", "created_at", "user_id", "curriculum_id", "secondary_curriculum_id",
     "strategy_id"}

\* a table that has the required column
SourceColumns == OutdatedColumns \cup {"source"}

StartupPayloads ==
    [created_at : {0, 1}, user_id : Users, curriculum_id : {1},
     secondary_curriculum_id : {None}, strategy_id : {None}]

StartupInit ==
    /\ journal = {}
    /\ Seeded
    /\ ColdCache
    /\ NoRequests
    /\ columns \in {NoTable, OutdatedColumns, SourceColumns, ModelColumns}
    /\ response = NoResponse
    /\ call = [startups |-> 0]

\* the application starts (again)
Startup ==
    /\ call.startups < MaxStartups
    /\ create_db_and_tables
    /\ call' = [startups |-> call.startups + 1]
    /\ response' = NoResponse
    /\ UNCHANGED <<reference, caching, limiter>>

\* POST /journal of the running application; the INSERT names every column
\* of the model and fails on a table that lacks one
StartupCreateJournal ==
    \E payload \in StartupPayloads :
        /\ call.startups > 0
        /\ Cardinality(journal) < MaxStartupJournal
        /\ IF ModelColumns \subseteq columns
           THEN create_journal(payload)
           ELSE /\ response' = [endpoint |-> "create_journal", status |-> 500,
                                payload |-> payload]
                /\ UNCHANGED <<journal, call, reference, caching, limiter, columns>>

StartupNext == Startup \/ StartupCreateJournal

SpecStartup == StartupInit /\ [][StartupNext]_vars

---------------------------------------------------------------------------
(* Requests served by two threads at once: an analytics request that uses  *)
(* the cache as its docstring shows (get; on a miss compute and set) and   *)
(* create_journal (commit, then invalidate_user).  Each cache call is one  *)
(* step, as the lock makes it; worker holds the position of each thread    *)

\* requests of one scenario
MaxStaleCalls == 3

\* a thread takes an analytics request of a user
BeginAnalytics(w, user_id) ==
    /\ worker[w].pc = "idle"
    /\ call.begun < MaxStaleCalls
    /\ worker' = [worker EXCEPT ![w] = [pc |-> "get", user_id |-> user_id]]
    /\ call' = [call EXCEPT !.begun = @ + 1]
    /\ UNCHANGED <<journal, response, reference, caching, _request_times, columns>>

\* result = cache.get(key): a hit is the answer
AnalyticsGet(w) ==
    LET key == OverviewKey(worker[w].user_id)
    IN  /\ worker[w].pc = "get"
        /\ cache' = get(key)
        /\ IF get_returns(key) = None
           THEN /\ worker' = [worker EXCEPT ![w].pc = "compute"]
                /\ UNCHANGED response
           ELSE /\ worker' = [worker EXCEPT ![w] = IdleWorker]
                /\ response' = [endpoint |-> "cached-overview",
                                user_id |-> worker[w].user_id, status |-> 200,
                                body |-> get_returns(key)[1]]
        /\ UNCHANGED <<journal, call, reference, clock, _request_times, columns>>

\* result = expensive_calculation(): read from the journal table as it is
AnalyticsCompute(w) ==
    /\ worker[w].pc = "compute"
    /\ worker' = [worker EXCEPT ![w] =
                      [pc |-> "set", user_id |-> worker[w].user_id,
                       result |-> OverviewValue(worker[w].user_id)]]
    /\ UNCHANGED <<journal, response, call, reference, caching, _request_times, columns>>

\* cache.set(key, result)
AnalyticsSet(w) ==
    /\ worker[w].pc = "set"
    /\ cache' = set(OverviewKey(worker[w].user_id), worker[w].result)
    /\ worker' = [worker EXCEPT ![w] = IdleWorker]
    /\ response' = [endpoint |-> "cached-overview",
                    user_id |-> worker[w].user_id, status |-> 200,
                    body |-> worker[w].result]
    /\ UNCHANGED <<journal, call, reference, clock, _request_times, columns>>

\* a thread takes a create_journal request: references validated, the row
\* added and committed
CreateCommit(w, user_id) ==
    /\ worker[w].pc = "idle"
    /\ call.begun < MaxStaleCalls
    /\ _validate_references(1, None, None)
    /\ journal' = journal \cup
           {[id |-> NextJournalId, created_at |-> 0, user_id |-> user_id,
             curriculum_id |-> 1, secondary_curriculum_id |-> None,
             strategy_id |-> None]}
    /\ worker' = [worker EXCEPT ![w] =
                      [pc |-> "invalidate", user_id |-> user_id,
                       id |-> NextJournalId]]
    /\ call' = [call EXCEPT !.begun = @ + 1]
    /\ UNCHANGED <<response, reference, caching, _request_times, columns>>

\* analytics_cache.invalidate_user(payload.user_id), then the answer
CreateInvalidate(w) ==
    /\ worker[w].pc = "invalidate"
    /\ cache' = invalidate_user(worker[w].user_id)
    /\ worker' = [worker EXCEPT ![w] = IdleWorker]
    /\ response' = [endpoint |-> "create_journal", status |-> 201,
                    id |-> worker[w].id]
    /\ UNCHANGED <<journal, call, reference, clock, _request_times, columns>>

StaleInit ==
    /\ journal = {}
    /\ Seeded
    /\ ColdCache
    /\ NoRequests
    /\ CurrentSchema
    /\ response = NoResponse
    /\ call = [begun |-> 0]

RequestAnalytics == \E w \in Workers, user_id \in Users : BeginAnalytics(w, user_id)
RunGet == \E w \in Workers : AnalyticsGet(w)
RunCompute == \E w \in Workers : AnalyticsCompute(w)
RunSet == \E w \in Workers : AnalyticsSet(w)
RequestCreate == \E w \in Workers, user_id \in Users : CreateCommit(w, user_id)
RunInvalidate == \E w \in Workers : CreateInvalidate(w)

StaleNext ==
    \/ RequestAnalytics \/ RunGet \/ RunCompute \/ RunSet
    \/ RequestCreate \/ RunInvalidate

SpecStale == StaleInit /\ [][StaleNext]_vars

---------------------------------------------------------------------------
(* Results stored under the keys make_cache_key builds for several users,  *)
(* endpoints, windows and extra parameters, and invalidate_user among      *)
(* them; call.log records the arguments of each call and the key it built  *)

\* calls of one scenario
MaxKeyOps == 3

\* users whose ids share their first digit
CacheUsers == {1, 10}

KeyEndpoints == {"overview", "growth"}

KeyWindows == {<<"2025-09-01", "2025-09-30">>, <<"2025-09-01", "2025-09-07">>}

\* extra keyword arguments as callers may write them: none, one, and the
\* same two in either order
KeyKwargs ==
    {NoKwargs,
     <<(<<"limit", "5">>)>>,
     <<(<<"offset", "0">>)>>,
     <<(<<"limit", "5">>), (<<"offset", "0">>)>>,
     <<(<<"offset", "0">>), (<<"limit", "5">>)>>}

KeyInit ==
    /\ journal = {}
    /\ Seeded
    /\ ColdCache
    /\ NoRequests
    /\ CurrentSchema
    /\ response = NoResponse
    /\ call = [log |-> <<>>]

\* analytics_cache.set(make_cache_key(...), result)
KeyedSet ==
    \E user_id \in CacheUsers, endpoint \in KeyEndpoints,
       window \in KeyWindows, kwargs \in KeyKwargs :
        LET key == make_cache_key(user_id, endpoint, window[1], window[2], kwargs)
        IN  /\ Len(call.log) < MaxKeyOps
            /\ cache' = set(key, "a")
            /\ call' = [log |-> Append(call.log,
                            [op |-> "set", user_id |-> user_id,
                             endpoint |-> endpoint, window |-> window,
                             kwargs |-> kwargs, key |-> key])]
            /\ UNCHANGED <<journal, response, reference, clock, limiter, columns>>

\* analytics_cache.invalidate_user(user_id)
KeyedInvalidateUser ==
    \E user_id \in CacheUsers :
        /\ Len(call.log) < MaxKeyOps
        /\ cache' = invalidate_user(user_id)
        /\ call' = [log |-> Append(call.log,
                        [op |-> "invalidate_user", user_id |-> user_id])]
        /\ UNCHANGED <<journal, response, reference, clock, limiter, columns>>

KeyNext == KeyedSet \/ KeyedInvalidateUser

SpecKeys == KeyInit /\ [][KeyNext]_vars

---------------------------------------------------------------------------
(* Direct calls of the cache: get, set, invalidate_user and clear in any   *)
(* order while time passes; call.log records each call with its time       *)

\* calls of one scenario
MaxCacheOps == 4

\* the instants of a scenario: around the start and around the expiry of an
\* entry set at the start
CacheTimes == {0, 1, DEFAULT_TTL_SECONDS, DEFAULT_TTL_SECONDS + 1}

CacheKeys == {OverviewKey(u) : u \in CacheUsers}

CacheValues == {"a", "b"}

CacheInit ==
    /\ journal = {}
    /\ Seeded
    /\ ColdCache
    /\ NoRequests
    /\ CurrentSchema
    /\ response = NoResponse
    /\ call = [log |-> <<>>]

Logged(entry) ==
    /\ Len(call.log) < MaxCacheOps
    /\ call' = [log |-> Append(call.log, entry)]
    /\ UNCHANGED <<journal, response, reference, clock, limiter, columns>>

CallSet ==
    \E key \in CacheKeys, value \in CacheValues :
        /\ cache' = set(key, value)
        /\ Logged([op |-> "set", key |-> key, value |-> value, at |-> clock])

CallGet ==
    \E key \in CacheKeys :
        /\ cache' = get(key)
        /\ Logged([op |-> "get", key |-> key, ret |-> get_returns(key), at |-> clock])

CallInvalidateUser ==
    \E user_id \in CacheUsers :
        /\ cache' = invalidate_user(user_id)
        /\ Logged([op |-> "invalidate_user", user_id |-> user_id, at |-> clock])

CallClear ==
    /\ cache' = clear
    /\ Logged([op |-> "clear", at |-> clock])

\* time passes, up to a later instant
Tick ==
    \E later \in CacheTimes :
        /\ later > clock
        /\ clock' = later
        /\ UNCHANGED <<journal, response, call, reference, cache, limiter, columns>>

CacheNext == CallSet \/ CallGet \/ CallInvalidateUser \/ CallClear \/ Tick

SpecCache == CacheInit /\ [][CacheNext]_vars

---------------------------------------------------------------------------
(* Direct calls of the streak helpers on arbitrary arguments *)

\* lists of at most n timestamps, newest first, none after top
RECURSIVE DescLists(_, _)
DescLists(n, top) ==
    {<<>>} \cup
    (IF n = 0 THEN {}
     ELSE UNION {{<<t>> \o rest : rest \in DescLists(n - 1, t)}
                    : t \in {u \in Times : u <= top}})

CallArgs ==
    UNION {{[entries |-> e, end_date |-> d, ret |-> <<>>] : e \in DescLists(MaxCallEntries, d)}
               : d \in Times}

StreakInit ==
    /\ journal = {}
    /\ Seeded
    /\ ColdCache
    /\ NoRequests
    /\ CurrentSchema
    /\ response = NoResponse
    /\ call \in CallArgs

Returned(name) == name \in DOMAIN call.ret

CallCalculateStreak ==
    /\ ~Returned("current_streak")
    /\ call' = [call EXCEPT !.ret =
                   [n \in DOMAIN call.ret \cup {"current_streak"} |->
                       IF n = "current_streak"
                       THEN _calculate_streak(call.entries, call.end_date)
                       ELSE call.ret[n]]]
    /\ UNCHANGED <<journal, response, reference, caching, limiter, columns>>

CallCalculateLongestStreak ==
    /\ ~Returned("longest_streak")
    /\ call' = [call EXCEPT !.ret =
                   [n \in DOMAIN call.ret \cup {"longest_streak"} |->
                       IF n = "longest_streak"
                       THEN _calculate_longest_streak(call.entries)
                       ELSE call.ret[n]]]
    /\ UNCHANGED <<journal, response, reference, caching, limiter, columns>>

StreakNext == CallCalculateStreak \/ CallCalculateLongestStreak

SpecStreak == StreakInit /\ [][StreakNext]_vars

---------------------------------------------------------------------------
(* Streak properties *)

\* the length of the run of consecutive dates of D that ends at date d
RunEndingAt(D, d) ==
    CHOOSE k \in 1 .. Cardinality(D) :
        /\ \A i \in 0 .. (k - 1) : (d - i) \in D
        /\ (d - k) \notin D

CallDates == EntryDates(call.entries)

\* C1: _calculate_streak returns 0 when there are no entries or the most
\* recent entry date is more than one day before the date of end_date, and
\* otherwise the length of the maximal run of consecutive calendar dates
\* ending at the most recent entry date (same-day entries counting once).
C1_CurrentStreakContract ==
    Returned("current_streak") =>
        call.ret["current_streak"] =
            IF call.entries = <<>> THEN 0
            ELSE IF DateOf(call.end_date) - SetMax(CallDates) > 1 THEN 0
            ELSE RunEndingAt(CallDates, SetMax(CallDates))

\* a run of two days ending on the day of end_date, an older date behind a
\* gap, and two entries on one day
C1_Witness ==
    /\ Returned("current_streak")
    /\ call.ret["current_streak"] = 2
    /\ Len(call.entries) = 4
    /\ Cardinality(CallDates) = 3
    /\ SetMax(CallDates) = DateOf(call.end_date)

\* C2: _calculate_longest_streak returns 0 for an empty list and otherwise
\* the length of the longest run of consecutive calendar dates among the
\* distinct entry dates.
C2_LongestStreakContract ==
    Returned("longest_streak") =>
        call.ret["longest_streak"] =
            IF call.entries = <<>> THEN 0
            ELSE SetMax({RunEndingAt(CallDates, d) : d \in CallDates})

\* two runs separated by a gap, the older one the longer
C2_Witness ==
    /\ Returned("longest_streak")
    /\ call.ret["longest_streak"] = 2
    /\ Cardinality(CallDates) = 3
    /\ RunEndingAt(CallDates, SetMax(CallDates)) = 1

\* the distinct dates are one unbroken run that ends at most one day before
\* the date of end_date
UnbrokenCurrentRun ==
    /\ call.entries # <<>>
    /\ SetMax(CallDates) - SetMin(CallDates) + 1 = Cardinality(CallDates)
    /\ DateOf(call.end_date) - SetMax(CallDates) <= 1

\* C4: when the distinct entry dates form one unbroken run whose most recent
\* date is at most one day before the end date, current_streak equals
\* longest_streak and both equal the number of distinct dates.
C4_UnbrokenRunStreaksAgree ==
    (Returned("current_streak") /\ Returned("longest_streak") /\ UnbrokenCurrentRun) =>
        /\ call.ret["current_streak"] = call.ret["longest_streak"]
        /\ call.ret["current_streak"] = Cardinality(CallDates)

C4_Witness ==
    /\ Returned("current_streak")
    /\ Returned("longest_streak")
    /\ UnbrokenCurrentRun
    /\ Cardinality(CallDates) = 3
    /\ Len(call.entries) = 4
    /\ SetMax(CallDates) = DateOf(call.end_date) - 1
    /\ call.ret["current_streak"] = 3

---------------------------------------------------------------------------
(* Overview properties *)

OverviewOk == response.endpoint = "overview" /\ response.status = 200

\* the rows of the table the claim calls in-window for the answered request
InWindow ==
    {r \in journal : /\ r.user_id = response.user_id
                     /\ response.start_date <= r.created_at
                     /\ r.created_at <= response.end_date}

InWindowDates == {DateOf(r.created_at) : r \in InWindow}

C6_AvgFrequencyOverCalendarDates ==
    (OverviewOk /\ response.start_date <= response.end_date) =>
        response.body.avg_frequency =
            Frac(Cardinality(InWindow),
                 DateOf(response.end_date) - DateOf(response.start_date) + 1)

\* the number of whole days elapsed from start to end, plus one
WholeDaysPlusOne(start_date, end_date) ==
    CHOOSE n \in 1 .. (end_date - start_date + 1) :
        /\ (n - 1) * TicksPerDay <= end_date - start_date
        /\ end_date - start_date < n * TicksPerDay

\* C6 amended: avg_frequency is total_entries over days_in_period, where
\* days_in_period is the number of whole 24-hour days elapsed between
\* start_date and end_date, plus one.
C6_AvgFrequencyOverElapsedDays ==
    (OverviewOk /\ response.start_date <= response.end_date) =>
        response.body.avg_frequency =
            Frac(Cardinality(InWindow),
                 WholeDaysPlusOne(response.start_date, response.end_date))

\* a window that starts late on one day and ends early on the next: two
\* calendar dates, less than one day elapsed
C6_Witness ==
    /\ OverviewOk
    /\ DateOf(response.end_date) = DateOf(response.start_date) + 1
    /\ response.end_date - response.start_date < TicksPerDay
    /\ response.body.total_entries = 2
    /\ response.body.avg_frequency = Frac(2, 1)

\* C9: the overview answers 404 exactly when the user has no entry in the
\* window, also when the user has entries outside it; otherwise it answers
\* 200 with total_entries the number of in-window entries.
C9_NotFoundIffEmptyWindow ==
    response.endpoint = "overview" =>
        /\ response.status = 404 <=> InWindow = {}
        /\ InWindow # {} =>
               /\ response.status = 200
               /\ response.body.total_entries = Cardinality(InWindow)

\* 404 for a user who has entries before and after the window, while another
\* user has an entry inside it
C9_Witness ==
    /\ response.endpoint = "overview"
    /\ response.status = 404
    /\ \E r \in journal : r.user_id = response.user_id /\ r.created_at < response.start_date
    /\ \E r \in journal : r.user_id = response.user_id /\ r.created_at > response.end_date
    /\ \E r \in journal : /\ r.user_id # response.user_id
                          /\ response.start_date <= r.created_at
                          /\ r.created_at <= response.end_date

---------------------------------------------------------------------------
(* Dosage properties *)

\* 100 * (entries of the user in [start_date, end_date] whose primary
\* curriculum is Medicinal) / (entries of the user in [start_date, end_date])
ClaimedRatio(user_id, start_date, end_date) ==
    LET rows == {r \in journal : /\ r.user_id = user_id
                                 /\ start_date <= r.created_at
                                 /\ r.created_at <= end_date}
        medicinal == {r \in rows :
                         \E c \in CurriculumTable :
                             c.id = r.curriculum_id /\ c.dosage = "Medicinal"}
    IN  IF rows = {} THEN Frac(0, 1)
        ELSE Frac(100 * Cardinality(medicinal), Cardinality(rows))

PrecedingStart == response.start_date - (response.end_date - response.start_date)

\* C7: medicinal_ratio is 100 * (in-window entries with a Medicinal primary
\* curriculum) / (in-window entries), whatever the secondary curriculum, and
\* 0.0 for a window without entries.
C7_MedicinalRatio ==
    /\ OverviewOk =>
           response.body.medicinal_ratio =
               ClaimedRatio(response.user_id, response.start_date, response.end_date)
    /\ (response.endpoint = "growth" /\ InWindow = {}) =>
           response.body.medicinal_trend =
               FracSub(Frac(0, 1),
                       ClaimedRatio(response.user_id, PrecedingStart, response.start_date))

\* two Medicinal check-ins and a Toxic one that carries a Medicinal secondary
C7_Witness ==
    /\ OverviewOk
    /\ response.body.medicinal_ratio = Frac(200, 3)
    /\ \E r \in InWindow : r.curriculum_id = 10 /\ r.secondary_curriculum_id = Some(1)

\* C8: medicinal_trend is the ratio over [start, end] minus the ratio over
\* [start - (end - start), start], in the overview and in the growth
\* response alike.
C8_MedicinalTrend ==
    (response.endpoint \in {"overview", "growth"} /\ response.status = 200) =>
        response.body.medicinal_trend =
            FracSub(ClaimedRatio(response.user_id, response.start_date, response.end_date),
                    ClaimedRatio(response.user_id, PrecedingStart, response.start_date))

\* a growth response whose ratio fell from 100 to 50, one check-in lying at
\* start_date exactly
C8_Witness ==
    /\ response.endpoint = "growth"
    /\ response.body.medicinal_trend = Frac(-50, 1)
    /\ \E r \in InWindow : r.created_at = response.start_date
    /\ \E r \in journal : r.user_id = response.user_id /\ r.created_at < response.start_date

---------------------------------------------------------------------------
(* Emotional landscape properties *)

Landscape == response.endpoint = "emotional-landscape"

\* C10 as claimed: with no entry in the window the emotional landscape
\* answers 200 with empty distributions and an empty top-emotions list.
C10_LandscapeEmptyIsOk ==
    (Landscape /\ InWindow = {}) =>
        /\ response.status = 200
        /\ response.body.layer_distribution = <<>>
        /\ response.body.phase_distribution = <<>>
        /\ response.body.top_emotions = <<>>

\* C10 amended: with no entry in the window the emotional landscape answers
\* 404, as the overview does; a 200 landscape has at least one in-window
\* entry and non-empty distributions and top emotions.
C10_LandscapeEmptyIsNotFound ==
    Landscape =>
        /\ InWindow = {} => response.status = 404
        /\ response.status = 200 =>
               /\ InWindow # {}
               /\ response.body.layer_distribution # <<>>
               /\ response.body.phase_distribution # <<>>
               /\ response.body.top_emotions # <<>>

\* 404 for a user whose only entries lie outside the window
C10_Witness ==
    /\ Landscape
    /\ response.status = 404
    /\ InWindow = {}
    /\ \E r \in journal : r.user_id = response.user_id

---------------------------------------------------------------------------
(* Endpoints that degrade on an empty window *)

Degrading == response.endpoint \in {"self-care", "temporal", "growth"}

\* C11 as claimed: with no entry of the user in [start_date, end_date] the
\* self-care, temporal and growth endpoints answer 200 with every field zero
\* or empty, medicinal_trend included, whatever lies outside the window.
C11_EmptyWindowAllZero ==
    (Degrading /\ InWindow = {}) =>
        /\ response.status = 200
        /\ response.endpoint = "self-care" =>
               /\ response.body.top_strategies = <<>>
               /\ response.body.diversity_score = Frac(0, 1)
               /\ response.body.total_strategy_entries = 0
        /\ response.endpoint = "temporal" =>
               /\ response.body.hourly_distribution = <<>>
               /\ response.body.consistency_score = Frac(0, 1)
        /\ response.endpoint = "growth" =>
               /\ response.body.medicinal_trend = Frac(0, 1)
               /\ response.body.layer_diversity = 0
               /\ response.body.phase_coverage = 0

\* C11 amended: with no entry of the user in [start_date, end_date] the three
\* endpoints answer 200; self-care and temporal are zeroed, growth has
\* layer_diversity 0 and phase_coverage 0, and its medicinal_trend is minus
\* the medicinal ratio of the preceding window [start - (end - start), start],
\* which is 0 only when that window holds no Medicinal entry of the user.
C11_EmptyWindowDegrades ==
    (Degrading /\ InWindow = {}) =>
        /\ response.status = 200
        /\ response.endpoint = "self-care" =>
               /\ response.body.top_strategies = <<>>
               /\ response.body.diversity_score = Frac(0, 1)
               /\ response.body.total_strategy_entries = 0
        /\ response.endpoint = "temporal" =>
               /\ response.body.hourly_distribution = <<>>
               /\ response.body.consistency_score = Frac(0, 1)
        /\ response.endpoint = "growth" =>
               /\ response.body.medicinal_trend =
                      FracSub(Frac(0, 1),
                              ClaimedRatio(response.user_id, PrecedingStart,
                                           response.start_date))
               /\ response.body.layer_diversity = 0
               /\ response.body.phase_coverage = 0

\* a growth response for an empty window that follows a Medicinal check-in
C11_Witness ==
    /\ response.endpoint = "growth"
    /\ InWindow = {}
    /\ response.body.medicinal_trend = Frac(-100, 1)
    /\ response.body.layer_diversity = 0
    /\ \E r \in journal : r.user_id = response.user_id /\ r.strategy_id # None

---------------------------------------------------------------------------
(* Dominant layer and phase *)

\* the user's entries with end_date - 7 days <= created_at <= end_date
TrailingSlice ==
    {r \in journal : /\ r.user_id = response.user_id
                     /\ response.end_date - 7 * TicksPerDay <= r.created_at
                     /\ r.created_at <= response.end_date}

\* the number of entries of the slice whose primary curriculum has value v
\* in the given column ("layer_id" or "phase_id")
SliceCount(column, v) ==
    Cardinality({r \in TrailingSlice :
                    \E c \in CurriculumTable : c.id = r.curriculum_id /\ c[column] = v})

\* the values of the column that occur in the slice
SliceValues(column) ==
    {c[column] : c \in {x \in CurriculumTable :
                            \E r \in TrailingSlice : r.curriculum_id = x.id}}

IsDominant(column, answer) ==
    IF TrailingSlice = {} THEN answer = None
    ELSE /\ answer # None
         /\ answer[1] \in SliceValues(column)
         /\ \A v \in SliceValues(column) :
                SliceCount(column, v) <= SliceCount(column, answer[1])

\* C12: in the overview dominant_layer_id (dominant_phase_id) is None exactly
\* when the user has no entry with end_date - 7 days <= created_at <= end_date,
\* and otherwise a layer (phase) id with the most entries in that slice; the
\* window's start_date plays no part.
C12_DominantOverTrailingSlice ==
    OverviewOk =>
        /\ IsDominant("layer_id", response.body.dominant_layer_id)
        /\ IsDominant("phase_id", response.body.dominant_phase_id)

\* the slice reaches before start_date and its majority, which lies there,
\* decides both answers against the entry inside the window
C12_Witness ==
    /\ OverviewOk
    /\ Cardinality(InWindow) = 1
    /\ \A r \in InWindow : r.curriculum_id = 2
    /\ Cardinality(TrailingSlice \ InWindow) = 2
    /\ \A r \in TrailingSlice \ InWindow : r.curriculum_id = 19
    /\ response.body.dominant_layer_id = Some(1)
    /\ response.body.dominant_phase_id = Some(2)

---------------------------------------------------------------------------
(* Top emotions of the landscape *)

\* in-window entries with c as primary curriculum plus those with c as
\* secondary curriculum
CombinedCount(c) ==
    Cardinality({r \in InWindow : r.curriculum_id = c}) +
    Cardinality({r \in InWindow : r.secondary_curriculum_id = Some(c)})

Felt == {c.id : c \in {x \in CurriculumTable : CombinedCount(x.id) > 0}}

\* C13: in a landscape response the count of each listed curriculum is its
\* number of in-window entries as primary plus as secondary curriculum; the
\* list is ordered by count non-increasing and is the first `limit` items of
\* the ranking of all curricula with a positive combined count.
C13_TopEmotionsCombineBothReferences ==
    (Landscape /\ response.status = 200) =>
        LET top == response.body.top_emotions
            limit == response.body.limit
            listed == {top[i].curriculum_id : i \in DOMAIN top}
        IN  /\ \A i \in DOMAIN top : top[i].count = CombinedCount(top[i].curriculum_id)
            /\ \A i, j \in DOMAIN top : i < j =>
                   /\ top[i].count >= top[j].count
                   /\ top[i].curriculum_id # top[j].curriculum_id
            /\ listed \subseteq Felt
            /\ Len(top) = (IF Cardinality(Felt) < limit THEN Cardinality(Felt) ELSE limit)
            /\ \A c \in Felt \ listed : \A i \in DOMAIN top : CombinedCount(c) <= top[i].count

\* an entry with the same primary and secondary curriculum counts twice and
\* so outranks a curriculum felt once, which limit = 1 cuts off
C13_Witness ==
    /\ Landscape
    /\ response.status = 200
    /\ response.body.limit = 1
    /\ Cardinality(Felt) = 2
    /\ Cardinality(InWindow) = 2
    /\ \E r \in InWindow : r.curriculum_id = 1 /\ r.secondary_curriculum_id = Some(1)
    /\ response.body.top_emotions[1].curriculum_id = 1
    /\ response.body.top_emotions[1].count = 2

---------------------------------------------------------------------------
(* Referential integrity of the journal *)

\* C14: in every reachable state every journal row's curriculum_id, and its
\* secondary_curriculum_id and strategy_id when not null, name a row of the
\* Curriculum (Strategy) table that exists.
C14_ReferencesResolve ==
    \A r \in journal :
        /\ \E c \in curriculum : c.id = r.curriculum_id
        /\ r.secondary_curriculum_id # None =>
               \E c \in curriculum : c.id = r.secondary_curriculum_id[1]
        /\ r.strategy_id # None =>
               \E st \in strategy : st.id = r.strategy_id[1]

\* a curriculum row could not be deleted because a journal row names it as
\* its primary curriculum, after a strategy was deleted
C14_Witness ==
    /\ response.endpoint = "delete_curriculum"
    /\ response.status = 500
    /\ \E r \in journal : r.curriculum_id = response.id
    /\ Cardinality(journal) = 2
    /\ \A st \in strategy : st.id # 1

---------------------------------------------------------------------------
(* Journal writes: bad references and the analytics cache *)

\* the references a write would leave in the row name a missing row
NamesMissingRow(curriculum_id, secondary_curriculum_id, strategy_id) ==
    \/ \A c \in curriculum : c.id # curriculum_id
    \/ /\ secondary_curriculum_id # None
       /\ \A c \in curriculum : c.id # secondary_curriculum_id[1]
    \/ /\ strategy_id # None
       /\ \A st \in strategy : st.id # strategy_id[1]

\* the field of the row an update leaves: the body's value if present
Resulting(data, key, current) == IF key \in DOMAIN data THEN data[key] ELSE current

\* C15: create_journal, and update_journal of an existing row with a
\* non-empty body, answer 400 whenever the resulting curriculum_id, non-null
\* secondary_curriculum_id or non-null strategy_id names a row that does not
\* exist; a 400 leaves the journal table and the analytics cache as they were.
C15_BadReferenceRejected ==
    [][/\ response'.endpoint = "create_journal" =>
           /\ NamesMissingRow(response'.payload.curriculum_id,
                              response'.payload.secondary_curriculum_id,
                              response'.payload.strategy_id)
                  => response'.status = 400
           /\ response'.status = 400 => journal' = journal /\ cache' = cache
       /\ (/\ response'.endpoint = "update_journal"
           /\ DOMAIN response'.data # {}
           /\ \E r \in journal : r.id = response'.id) =>
           LET row == CHOOSE r \in journal : r.id = response'.id
               data == response'.data
               curriculum_id == Resulting(data, "curriculum_id", Some(row.curriculum_id))
           IN  /\ (/\ curriculum_id # None
                    /\ NamesMissingRow(
                           curriculum_id[1],
                           Resulting(data, "secondary_curriculum_id",
                                     row.secondary_curriculum_id),
                           Resulting(data, "strategy_id", row.strategy_id)))
                      => response'.status = 400
               /\ response'.status = 400 => journal' = journal /\ cache' = cache
      ]_vars

\* an update that would point an entry at a missing strategy was answered
\* 400 while the cache held a result for the entry's user
C15_Witness ==
    /\ response.endpoint = "update_journal"
    /\ response.status = 400
    /\ response.data = [strategy_id |-> Some(NoSuchStrategy)]
    /\ \E r \in journal : /\ r.id = response.id
                           /\ r.strategy_id = None
                           /\ OverviewKey(r.user_id) \in DOMAIN cache

\* the users a step has written a journal row of: the owner named by a
\* created row, the owner of an updated row before and after, the owner of a
\* deleted row
WrittenUsers ==
    IF response'.endpoint = "create_journal" /\ response'.status = 201
    THEN {response'.payload.user_id}
    ELSE IF /\ response'.endpoint = "update_journal"
            /\ response'.status = 200
            /\ DOMAIN response'.data # {}
    THEN {r.user_id : r \in {x \in journal \cup journal' : x.id = response'.id}}
    ELSE IF response'.endpoint = "delete_journal" /\ response'.status = 204
    THEN {r.user_id : r \in {x \in journal : x.id = response'.id}}
    ELSE {}

\* the cache keys make_cache_key builds for a user
KeysOfUser(c, user_id) ==
    {k \in DOMAIN c :
        \E endpoint \in {"overview", "growth"} :
            k = make_cache_key(user_id, endpoint, "2025-09-01", "2025-09-30", NoKwargs)}

\* C16: after a successful create_journal, update_journal or delete_journal
\* of a row of a user, the analytics cache holds no entry of that user.
C16_JournalWritesInvalidate ==
    [][\A user_id \in WrittenUsers : KeysOfUser(cache', user_id) = {}]_vars

---------------------------------------------------------------------------
(* The cache contract, read off the log of calls *)

\* the user a key was built for
KeyUser(key) == CHOOSE u \in CacheUsers : key = OverviewKey(u)

\* what the i-th call, a get, has to return: the value of the latest earlier
\* set of its key if that set is at most 300 seconds old and neither clear
\* nor invalidate_user of the key's user came after it, and None otherwise
DueValue(log, i) ==
    LET sets == {j \in 1 .. (i - 1) : log[j].op = "set" /\ log[j].key = log[i].key}
    IN  IF sets = {} THEN None
        ELSE LET last == SetMax(sets)
                 dropped == \E k \in (last + 1) .. (i - 1) :
                                \/ log[k].op = "clear"
                                \/ /\ log[k].op = "invalidate_user"
                                   /\ log[k].user_id = KeyUser(log[i].key)
             IN  IF log[i].at - log[last].at <= 300 /\ ~dropped
                 THEN Some(log[last].value)
                 ELSE None

\* C17: every get returns the value of the most recent set of its key when
\* that set is no more than ttl seconds old and no clear or invalidate_user
\* of the key's user lies between, and None in every other case; a get that
\* found its entry expired has deleted it.
C17_GetContract ==
    /\ \A i \in DOMAIN call.log :
           call.log[i].op = "get" => call.log[i].ret = DueValue(call.log, i)
    /\ \A i \in DOMAIN call.log :
           (/\ i = Len(call.log)
            /\ call.log[i].op = "get"
            /\ call.log[i].ret = None) => call.log[i].key \notin DOMAIN cache

\* a value read back exactly ttl seconds after it was set, and found gone a
\* second later
C17_Witness ==
    /\ Len(call.log) = 3
    /\ call.log[1].op = "set" /\ call.log[1].at = 0
    /\ call.log[2].op = "get" /\ call.log[2].at = 300
    /\ call.log[2].key = call.log[1].key /\ call.log[2].ret = Some(call.log[1].value)
    /\ call.log[3].op = "get" /\ call.log[3].at = 301
    /\ call.log[3].key = call.log[1].key /\ call.log[3].ret = None
    /\ cache = <<>>

---------------------------------------------------------------------------
(* The catalog payload *)

\* the place of a name in the canonical display order
Position(name) == CHOOSE i \in DOMAIN PHASE_ORDER : PHASE_ORDER[i] = name

Catalogued == response.endpoint = "get_catalog" /\ response.status = 200

\* C18: phase_order and every layer's phases follow the canonical display
\* order whatever ids the Phase rows have; every layer has one node per
\* phase, in the order of phase_order; an empty database gives [] and [].
C18_CanonicalPhaseOrder ==
    Catalogued =>
        LET order == response.body.phase_order
            layers == response.body.layers
        IN  /\ \A i, j \in DOMAIN order :
                   i < j => Position(order[i]) <= Position(order[j])
            /\ Len(order) = Cardinality(phase)
            /\ \A k \in DOMAIN layers :
                   [i \in DOMAIN layers[k].phases |-> layers[k].phases[i].name] = order
            /\ (phase = {} /\ layer = {}) => (order = <<>> /\ layers = <<>>)

---------------------------------------------------------------------------
(* Seeding *)

\* a step that is a run of seeding
SeedingStep == response' # response /\ response'.endpoint \in {"seed_data", "seed_database"}

\* a table changes only from empty to its fixture rows
OnlyIfEmpty(before, after, fixture) == after # before => (before = {} /\ after = fixture)

\* C19: a run of seeding inserts the fixture rows of a table only if that
\* table is empty, each table on its own, so a table holding a row is left
\* unchanged; a run right after a run of the same function changes no table.
C19_SeedsOnlyEmptyTables ==
    [][SeedingStep =>
          /\ OnlyIfEmpty(layer, layer', LayerTable)
          /\ OnlyIfEmpty(phase, phase', PhaseTable)
          /\ OnlyIfEmpty(curriculum, curriculum', CurriculumTable)
          /\ OnlyIfEmpty(strategy, strategy', StrategyTable)
          /\ OnlyIfEmpty(journal, journal', JournalFixture)
          /\ (response'.runs >= 2 => UNCHANGED <<journal, reference>>)]_vars

\* a second run after a first one that filled the empty layer and journal
\* tables next to a phase table holding its own row
C19_Witness ==
    /\ response.endpoint = "seed_data"
    /\ response.runs = 2
    /\ response.first = {"layer", "journal"}
    /\ layer = LayerTable
    /\ journal = JournalFixture
    /\ phase = {[id |-> 1, name |-> "Restoration"]}

---------------------------------------------------------------------------
(* Canonical timestamps *)

\* minutes east of UTC a zone suffix stands for
SuffixOffset(suffix) ==
    CASE suffix \in {"", "Z", "+00:00"} -> 0
      [] suffix = "+02:00" -> 120
      [] suffix = "-05:00" -> 0 - 300

\* the instant a value denotes, in minutes UTC, a value without a zone being
\* read as UTC
Instant(value) ==
    IF value.kind = "str" THEN value.wall - SuffixOffset(value.suffix)
    ELSE IF value.tz = None THEN value.wall
    ELSE value.wall - value.tz[1]

\* the canonical form a function gives an instant
Canonical(fn, value) ==
    IF value = PyNone THEN PyNone
    ELSE [kind |-> "datetime", wall |-> Instant(value),
          tz |-> IF fn = "to_utc_naive" THEN None ELSE Some(0)]

\* C20: each canonicalization function returns its input's instant in UTC,
\* a naive input read as UTC and an aware one converted (to_utc_naive
\* without the zone marker); inputs denoting the same instant give equal
\* results; applied to its own result a function changes nothing.
C20_CanonicalInstant ==
    ~Idle =>
        /\ response.ret_a = Canonical(response.endpoint, response.a)
        /\ response.ret_b = Canonical(response.endpoint, response.b)
        /\ (/\ response.a # PyNone
            /\ response.b # PyNone
            /\ Instant(response.a) = Instant(response.b)) => response.ret_a = response.ret_b
        /\ response.of_result => (response.ret_a = response.a /\ response.ret_b = response.b)

\* 14:00 at +02:00 and naive 12:00 both stored as naive 12:00, which
\* to_utc_naive then leaves alone
C20_Witness ==
    /\ response.endpoint = "to_utc_naive"
    /\ response.of_result
    /\ call.a = [kind |-> "datetime", wall |-> 840, tz |-> Some(120)]
    /\ call.b = [kind |-> "datetime", wall |-> 720, tz |-> None]
    /\ response.ret_a = [kind |-> "datetime", wall |-> 720, tz |-> None]
    /\ response.ret_b = response.ret_a

---------------------------------------------------------------------------
(* Journal CRUD *)

\* the step is a request of one of these kinds for a journal id
Requests(kinds) == response' # response /\ response'.endpoint \in kinds

\* the row a 201 answer reports as created
CreatedRow(answer) ==
    [id |-> answer.id,
     created_at |-> answer.payload.created_at,
     user_id |-> answer.payload.user_id,
     curriculum_id |-> answer.payload.curriculum_id,
     secondary_curriculum_id |-> answer.payload.secondary_curriculum_id,
     strategy_id |-> answer.payload.strategy_id]

\* C21: delete_journal of an existing id removes that row and no other, and
\* from then on get, update and delete of the id answer 404; get, update and
\* delete of an id without a row answer 404 and change no row; a delete right
\* after the create of an entry gives back the journal as it was before.
C21_DeleteAndNotFound ==
    [][/\ Requests({"get_journal", "update_journal", "delete_journal"}) =>
           IF \E r \in journal : r.id = response'.id
           THEN /\ response'.status # 404
                /\ response'.endpoint = "delete_journal" =>
                       /\ response'.status = 204
                       /\ journal' = {r \in journal : r.id # response'.id}
                       /\ Cardinality(journal') = Cardinality(journal) - 1
           ELSE /\ response'.status = 404
                /\ journal' = journal
       /\ (Requests({"create_journal"}) /\ response'.status = 201) =>
           /\ \A r \in journal : r.id # response'.id
           /\ journal' = journal \cup {CreatedRow(response')}
       /\ (/\ response.endpoint = "create_journal"
           /\ response.status = 201
           /\ Requests({"delete_journal"})
           /\ response'.id = response.id) =>
           /\ journal' \cup {CreatedRow(response)} = journal
           /\ CreatedRow(response) \notin journal']_vars

\* the second of two entries has just been deleted and the first is still
\* there
C21_Witness ==
    /\ response.endpoint = "delete_journal"
    /\ response.id = 2
    /\ response.status = 204
    /\ Cardinality(journal) = 1
    /\ \E r \in journal : r.id = 1 /\ r.strategy_id = Some(1)

\* the columns that are NOT NULL, and those that may be cleared
RequiredFields == {"created_at", "user_id", "curriculum_id"}

ClearableFields == {"secondary_curriculum_id", "strategy_id"}

\* a field of the row after the update agrees with the body if the body has
\* the field and with the row before if not
FieldFollowsBody(before, after, data, field) ==
    IF field \in DOMAIN data
    THEN IF field \in RequiredFields
         THEN after[field] = data[field][1]
         ELSE after[field] = data[field]
    ELSE after[field] = before[field]

\* C24: an update_journal answered 200 changes exactly the fields its body
\* holds, a null clearing secondary_curriculum_id or strategy_id, and leaves
\* the other fields, the id and the other rows alone; with an empty body it
\* changes nothing; it returns the row as it now is.
C24_UpdateChangesSentFields ==
    [][(Requests({"update_journal"}) /\ response'.status = 200) =>
          /\ \E before \in journal : before.id = response'.id
          /\ \E after \in journal' : after.id = response'.id
          /\ LET before == CHOOSE r \in journal : r.id = response'.id
                 after == CHOOSE r \in journal' : r.id = response'.id
             IN  /\ \A field \in RequiredFields \cup ClearableFields :
                        FieldFollowsBody(before, after, response'.data, field)
                 /\ journal' \ {after} = journal \ {before}
                 /\ Cardinality(journal') = Cardinality(journal)
                 /\ DOMAIN response'.data = {} => journal' = journal
                 /\ response'.row = after]_vars

\* a body of three fields, one of them null, applied to the second of two rows
C24_Witness ==
    /\ response.endpoint = "update_journal"
    /\ response.status = 200
    /\ response.id = 2
    /\ response.data = [secondary_curriculum_id |-> None, strategy_id |-> Some(4),
                        user_id |-> Some(2)]
    /\ \E r \in journal : /\ r.id = 2
                           /\ r.user_id = 2
                           /\ r.secondary_curriculum_id = None
                           /\ r.strategy_id = Some(4)
                           /\ r.curriculum_id = 1
    /\ \E r \in journal : r.id = 1 /\ r.user_id = 1

---------------------------------------------------------------------------
(* The request budget of a client *)

\* the earlier accepted calls of the host of the i-th finished call that are
\* no older than a minute when the i-th call is made
Recent(log, i) ==
    {j \in 1 .. (i - 1) : /\ log[j].ip = log[i].ip
                          /\ log[j].status = 200
                          /\ log[i].now - log[j].now <= 60}

\* C22: with calls one at a time at non-decreasing times, a call is rejected
\* with 429 exactly when 100 earlier accepted calls of its host are no older
\* than a minute; rejected calls and calls of other hosts do not count.
C22_RejectedIffBudgetSpent ==
    \A i \in Prefilled .. Len(call.log) :
        /\ call.log[i].status \in {200, 429}
        /\ call.log[i].status = 429 <=> Cardinality(Recent(call.log, i)) >= 100

\* the host was rejected at 60 seconds, when its hundred calls of the first
\* second still counted, and accepted at 61, when only the one of second 1 did
C22_Witness ==
    /\ Len(call.log) = Prefilled + 4
    /\ \A i \in DOMAIN call.log : call.log[i].ip = "10.0.0.1"
    /\ call.log[Prefilled + 1].status = 200 /\ call.log[Prefilled + 1].now = 0
    /\ call.log[Prefilled + 2].status = 200 /\ call.log[Prefilled + 2].now = 1
    /\ call.log[Prefilled + 3].status = 429 /\ call.log[Prefilled + 3].now = 60
    /\ call.log[Prefilled + 4].status = 200 /\ call.log[Prefilled + 4].now = 61
    /\ _request_times["10.0.0.1"] = <<1, 61>>

\* the accepted calls of a host made within a minute from the i-th call on
AcceptedWithin(log, i) ==
    {j \in DOMAIN log : /\ log[j].ip = log[i].ip
                        /\ log[j].status = 200
                        /\ log[j].now >= log[i].now
                        /\ log[j].now - log[i].now <= 60}

\* C26: however concurrent calls of rate_limit for one host interleave, its
\* deque never holds more than 100 timestamps and no more than 100 of its
\* calls are accepted within one minute.
C26_BudgetHoldsUnderRaces ==
    /\ \A ip \in IPs : Len(_request_times[ip]) <= 100
    /\ \A i \in Prefilled .. Len(call.log) :
           call.log[i].status = 200 => Cardinality(AcceptedWithin(call.log, i)) <= 100


---------------------------------------------------------------------------
(* Keys and invalidation, read off the log of calls *)

\* the users for whom some logged set built the key
BuiltFor(log, key) ==
    {log[i].user_id : i \in {j \in 1 .. Len(log) : log[j].op = "set" /\ log[j].key = key}}

\* the extra keyword arguments without their order
KwargSet(kwargs) == {kwargs[i] : i \in 1 .. Len(kwargs)}

\* two logged sets were called with the same arguments
SameArguments(a, b) ==
    /\ a.user_id = b.user_id
    /\ a.endpoint = b.endpoint
    /\ a.window = b.window
    /\ KwargSet(a.kwargs) = KwargSet(b.kwargs)

\* the step is a call of invalidate_user
Invalidating ==
    /\ Len(call'.log) = Len(call.log) + 1
    /\ call'.log[Len(call'.log)].op = "invalidate_user"

\* C23: invalidate_user(u) removes every entry whose key make_cache_key
\* built for user u, whatever the endpoint, window and extra parameters,
\* and leaves every entry of another user as it was, 1 and 10 included; and
\* make_cache_key builds the same key for the same arguments whatever the
\* order of the extra keyword arguments.
C23_InvalidateUserByKey ==
    [][/\ Invalidating =>
            LET u == call'.log[Len(call'.log)].user_id
            IN  \A k \in DOMAIN cache :
                    /\ u \in BuiltFor(call.log, k) => k \notin DOMAIN cache'
                    /\ u \notin BuiltFor(call.log, k) =>
                            k \in DOMAIN cache' /\ cache'[k] = cache[k]
        /\ \A i, j \in 1 .. Len(call'.log) :
            (/\ call'.log[i].op = "set"
             /\ call'.log[j].op = "set"
             /\ SameArguments(call'.log[i], call'.log[j]))
                => call'.log[i].key = call'.log[j].key]_vars

\* user 1 was invalidated while the cache held a result of user 1 with the
\* two extra parameters and a result of user 10: only the latter is left
C23_Witness ==
    /\ Len(call.log) = 3
    /\ call.log[1].op = "set" /\ call.log[1].user_id = 1
    /\ Len(call.log[1].kwargs) = 2
    /\ call.log[2].op = "set" /\ call.log[2].user_id = 10
    /\ call.log[3] = [op |-> "invalidate_user", user_id |-> 1]
    /\ DOMAIN cache = {call.log[2].key}

---------------------------------------------------------------------------
(* The cache beside concurrent writes *)

\* every request has finished
AllFinished == \A w \in Workers : worker[w].pc = "idle"

\* C25: an analytics request that uses the cache as documented runs while
\* create_journal of the same user commits and invalidates; once both have
\* finished the cache holds no result of that user computed from the
\* journal table as it was before the commit.
C25_NoStaleResultAfterRace ==
    AllFinished =>
        \A user_id \in Users :
            OverviewKey(user_id) \in DOMAIN cache =>
                cache[OverviewKey(user_id)].value = OverviewValue(user_id)

---------------------------------------------------------------------------
(* The two windows of the medicinal trend *)

\* the journal rows a call of _calculate_medicinal_ratio counts
Counted(user_id, start_date, end_date) ==
    {j.row : j \in JoinedOnPrimary(WindowRows(user_id, start_date, end_date))}

\* the rows counted for the current and for the previous period of the
\* answered request
CountedCurrent ==
    Counted(response.user_id, response.start_date, response.end_date)

CountedPrevious ==
    Counted(response.user_id,
            PrevStart(response.start_date, response.end_date),
            response.start_date)

\* C27: the two windows medicinal_trend compares share the instant
\* start_date: an entry created at start_date exactly is counted in the
\* current ratio and in the previous ratio, every other entry in at most
\* one of them.
C27_WindowsShareStart ==
    (response.endpoint \in {"overview", "growth"} /\ response.status = 200) =>
        /\ CountedCurrent \cap CountedPrevious =
               {r \in journal : /\ r.user_id = response.user_id
                                /\ r.created_at = response.start_date}
        /\ \A r \in CountedCurrent \cup CountedPrevious :
               r.created_at # response.start_date =>
                   (r.created_at > response.start_date) = (r \in CountedCurrent)

\* an overview over a Medicinal check-in at start_date and a Toxic one
\* later, nothing earlier: the first is the whole previous period, so the
\* ratio fell from 100 to 50
C27_Witness ==
    /\ response.endpoint = "overview"
    /\ response.status = 200
    /\ response.start_date < response.end_date
    /\ Cardinality(CountedCurrent) = 2
    /\ Cardinality(CountedPrevious) = 1
    /\ CountedPrevious \subseteq CountedCurrent
    /\ response.body.medicinal_ratio = Frac(50, 1)
    /\ response.body.medicinal_trend = Frac(-50, 1)

---------------------------------------------------------------------------
(* Windows written in different offsets *)

\* the request just answered and the kept one ask the same endpoint for the
\* same user and the same instants, over the same journal
SameWindowAsPrevious ==
    /\ Answered
    /\ call.previous # None
    /\ LET kept == call.previous[1]
       IN  /\ kept.rows = journal
           /\ kept.request.endpoint = call.request.endpoint
           /\ kept.request.user_id = call.request.user_id
           /\ Instant(kept.request.start_date) = Instant(call.request.start_date)
           /\ Instant(kept.request.end_date) = Instant(call.request.end_date)

\* C28: analytics results depend on the instants start_date and end_date
\* denote, not on the UTC offset they are written in: two overview (or
\* temporal) requests of a user for the same instants get the same answer
\* status, current_streak and avg_frequency (or consistency_score).
C28_OffsetIndependent ==
    SameWindowAsPrevious =>
        LET kept == call.previous[1].response
        IN  /\ response.status = kept.status
            /\ (response.status = 200 /\ response.endpoint = "overview") =>
                   /\ response.body.current_streak = kept.body.current_streak
                   /\ response.body.avg_frequency = kept.body.avg_frequency
            /\ (response.status = 200 /\ response.endpoint = "temporal") =>
                   response.body.consistency_score = kept.body.consistency_score

---------------------------------------------------------------------------
(* Startup and the journal table *)

\* the step is a startup
StartingUp == call'.startups = call.startups + 1

\* C29: create_db_and_tables never discards journal data when the schema
\* is current: with every column of the Journal model on disk, a startup
\* leaves all journal rows and the table in place.
C29_StartupKeepsCurrentTable ==
    [][(StartingUp /\ ModelColumns \subseteq columns) =>
           (journal' = journal /\ columns' = columns)]_vars

---------------------------------------------------------------------------
(* What leaves the cache, read off the log of calls *)

\* the latest set of a key in the log, 0 if there is none
LatestSet(log, key) ==
    SetMax({0} \cup {j \in 1 .. Len(log) : log[j].op = "set" /\ log[j].key = key})

\* the i-th call removes the entry the j-th call, a set, stored: it is a
\* clear, an invalidate_user of the key's user, or a get of the same key
\* more than 300 seconds after the set
Removes(log, i, j) ==
    \/ log[i].op = "clear"
    \/ log[i].op = "invalidate_user" /\ log[i].user_id = KeyUser(log[j].key)
    \/ /\ log[i].op = "get"
       /\ log[i].key = log[j].key
       /\ log[i].at > log[j].at + DEFAULT_TTL_SECONDS

\* the keys set and not removed since
KeysLeft(log) ==
    {key \in CacheKeys :
        LET j == LatestSet(log, key)
        IN  j > 0 /\ \A i \in (j + 1) .. Len(log) : ~Removes(log, i, j)}

\* C30: an entry, expired or not, leaves the cache only through a get of
\* its own key after its expiry, an invalidate_user of its user, or clear;
\* set, and get of another key, remove nothing, so stats()["entry_count"]
\* is the number of distinct keys set and not removed in one of these ways.
C30_ExpiredEntriesStay ==
    /\ DOMAIN cache = KeysLeft(call.log)
    /\ stats.entry_count = Cardinality(KeysLeft(call.log))

\* the entry of user 1 has expired; a get and a set of the key of user 10
\* came after its expiry and it is still counted
C30_Witness ==
    /\ Len(call.log) = 3
    /\ call.log[1].op = "set" /\ KeyUser(call.log[1].key) = 1
    /\ call.log[2].op = "get" /\ KeyUser(call.log[2].key) = 10
    /\ call.log[2].at > call.log[1].at + DEFAULT_TTL_SECONDS
    /\ call.log[3].op = "set" /\ KeyUser(call.log[3].key) = 10
    /\ Expired(cache[call.log[1].key])
    /\ stats.entry_count = 2
=============================================================================
